---- MODULE Spec2Model ----
(***************************************************************************)
(* Verification model of the tool-invocation bridge of the todo chatbot    *)
(* backend: the connection singleton (services/agent.py get_mcp_server),   *)
(* the invocation bridge (create_task_agent, process_message), the tool    *)
(* binding layer and the task operation add_task (tools/server.py).        *)
(*                                                                         *)
(* Optional values (Python None or a value) are tuples of length 0 or 1.   *)
(***************************************************************************)
EXTENDS Integers, Sequences, FiniteSets, TLC

VARIABLES
    mount,            \* settings.MOUNT_MCP_SERVER, fixed at process start
    MCP_SERVER_URL,   \* settings.MCP_SERVER_URL: absent or a string
    API_PORT,         \* settings.API_PORT
    mcp_params,       \* params the singleton was constructed with, if it was
    mcp_server,       \* agent._mcp_server: NoServer or a handle
    mcp_server_lock,  \* agent._mcp_server_lock: the asyncio.Lock, once created
    constructed,      \* number of MCPServerStreamableHttp objects constructed
    session,          \* handles whose scoped session is currently open
    pc,               \* per request: position inside process_message
    agent,            \* per request: the Agent built by create_task_agent, if any
    server,           \* per request: local `server` of process_message
    inflight,         \* per request: value or exception travelling out of the run
    result,           \* per request: what process_message returned, if it did
    raisedAt,         \* per request: where the caught fault was raised
    calledUninit,     \* per request: _mcp_server was None when it called get_mcp_server
    started,          \* number of process_message calls made so far
    kind,             \* per request: which entry point the call came through
    enters,           \* per request: times the call entered `async with server`
    exits,            \* per request: times the call left `async with server`
    tasks,            \* the task store: sequence of persisted Task rows
    next_id,          \* number of Task ids generated so far
    last,             \* record of the last tool / task / store operation call
    threads,          \* SimpleMemoryStore.threads: ordered dict of ThreadMetadata
    items,            \* SimpleMemoryStore.items: thread id -> ordered dict of items
    message_table,    \* the Message rows committed by respond
    respond           \* the running call of TaskManagerChatKitServer.respond

bridgeVars == <<mount, MCP_SERVER_URL, API_PORT, mcp_params, mcp_server, mcp_server_lock, constructed, session,
                pc, agent, server, inflight, result, raisedAt, calledUninit,
                started, kind, enters, exits>>
taskVars == <<tasks, next_id, last>>
storeVars == <<threads, items>>
respondVars == <<message_table, respond>>
chatkitVars == <<storeVars, respondVars>>
vars == <<bridgeVars, taskVars, chatkitVars>>

----------------------------------------------------------------------------
(* Bounds of the model *)

NumReqs == 2
MaxStarts == 2
MaxTasks == 2
MaxResponds == 2

Reqs == 1..NumReqs

----------------------------------------------------------------------------
(* Optional values *)

None == <<>>
Some(v) == <<v>>
IsNone(o) == o = <<>>
Val(o) == o[1]

----------------------------------------------------------------------------
(* Connection singleton: agent.py get_mcp_server *)

NoServer == 0

NoLock == [exists |-> FALSE, locked |-> FALSE, waiters |-> <<>>, woken |-> {}]

\* asyncio.Lock(): a fresh unlocked lock without waiters
NewLock == [exists |-> TRUE, locked |-> FALSE, waiters |-> <<>>, woken |-> {}]

RemoveWaiter(ws, r) == SelectSeq(ws, LAMBDA x : x # r)

\* asyncio.Lock._wake_up_first: the first waiter's future is resolved
WakeUpFirst(l) ==
    IF l.waiters = <<>> THEN l
    ELSE [l EXCEPT !.woken = @ \cup {Head(l.waiters)}]

\* mutant: the release does not wake the first waiter
Release_NoWake(l) == [l EXCEPT !.locked = FALSE]

\* asyncio.Lock.release, as run by `async with` on every exit of the block
Release(l) == WakeUpFirst([l EXCEPT !.locked = FALSE])

\* mutant: the lock does not exclude a second caller
CanAcquireNow_NoExclusion(l) == TRUE

\* the fast path of asyncio.Lock.acquire
CanAcquireNow(l) == ~l.locked /\ l.waiters = <<>>

----------------------------------------------------------------------------
(* Settings: config.py *)

OPENAI_MODEL == "gpt-4o"

OPENAI_API_TIMEOUT == 30

\* a decimal digit as text
Digit(d) ==
    CASE d = 0 -> "0" [] d = 1 -> "1" [] d = 2 -> "2" [] d = 3 -> "3"
      [] d = 4 -> "4" [] d = 5 -> "5" [] d = 6 -> "6" [] d = 7 -> "7"
      [] d = 8 -> "8" [] d = 9 -> "9"

RECURSIVE Dec(_)
\* the text of a non-negative int, as an f-string formats it
Dec(n) == IF n < 10 THEN Digit(n) ELSE Dec(n \div 10) \o Digit(n % 10)

\* mutant: the URL of separate mode is built from API_PORT as well
mcp_server_url_AlwaysApiPort(url, mounted, port) ==
    IF ~IsNone(url) /\ Val(url) # "" THEN Val(url)
    ELSE "http://localhost:" \o Dec(port) \o "/mcp"

\* Settings.mcp_server_url: a set, non-empty MCP_SERVER_URL wins; else the
\* URL of the mounted server on API_PORT or of the separate one on 8001
mcp_server_url(url, mounted, port) ==
    IF ~IsNone(url) /\ Val(url) # "" THEN Val(url)
    ELSE IF mounted THEN "http://localhost:" \o Dec(port) \o "/mcp"
    ELSE "http://localhost:8001/mcp"

Configuration(mounted, url, port) ==
    [MOUNT_MCP_SERVER |-> mounted, MCP_SERVER_URL |-> url, API_PORT |-> port]

\* the configurations the process is started with: the defaults, each
\* deployment mode with and without an override, an empty override, and a
\* port other than the default
SettingsInputs ==
    { Configuration(TRUE, None, 8000),
      Configuration(TRUE, None, 8080),
      Configuration(TRUE, Some("http://tools.internal:9000/mcp"), 8000),
      Configuration(FALSE, None, 8000),
      Configuration(FALSE, Some(""), 8080),
      Configuration(FALSE, Some("http://tools.internal:9000/mcp"), 8000) }

----------------------------------------------------------------------------
(* Tool schema surface *)

Arg(n, req) == [name |-> n, required |-> req]

\* the five closures of create_task_agent, as function_tool declares them
DirectTools ==
    { [name |-> "add_task_tool", returns |-> "dict",
       args |-> <<Arg("title", TRUE), Arg("description", FALSE)>>],
      [name |-> "list_tasks_tool", returns |-> "dict",
       args |-> <<Arg("status", FALSE)>>],
      [name |-> "complete_task_tool", returns |-> "dict",
       args |-> <<Arg("task_id", TRUE)>>],
      [name |-> "update_task_tool", returns |-> "dict",
       args |-> <<Arg("task_id", TRUE), Arg("title", FALSE),
                  Arg("description", FALSE)>>],
      [name |-> "delete_task_tool", returns |-> "dict",
       args |-> <<Arg("task_id", TRUE)>>] }

\* the tools registered with @mcp.tool() in tools/server.py
McpTools ==
    { [name |-> "add_task_tool", returns |-> "dict",
       args |-> <<Arg("user_id", TRUE), Arg("title", TRUE),
                  Arg("description", FALSE)>>] }

\* Agent(name, instructions, tools=[...], model) of mounted mode
DirectAgent(user_id) ==
    [user_id |-> user_id, tools |-> DirectTools, mcp_servers |-> <<>>,
     model |-> OPENAI_MODEL]

\* Agent(name, instructions, mcp_servers=[server], model) of separate mode
RemoteAgent(user_id, h) ==
    [user_id |-> user_id, tools |-> {}, mcp_servers |-> <<h>>,
     model |-> OPENAI_MODEL]

\* the tools the reasoning capability is offered by an agent
ToolSurface(a) == IF a.mcp_servers = <<>> THEN a.tools ELSE McpTools

----------------------------------------------------------------------------
(* Invocation bridge: agent.py process_message *)

U1 == <<[ch |-> "u", n |-> 1], [ch |-> "1", n |-> 1]>>
U2 == <<[ch |-> "u", n |-> 1], [ch |-> "2", n |-> 1]>>

\* the acting users of tool calls
Users == {U1, U2}

\* the acting user of the requests of the bridge, whose steps do not
\* depend on who the user is
RequestUsers == {U1}

\* str(e) of the faults an external call can raise
FaultMessages == {"", "transport failure"}

Apology ==
    "I'm sorry, I encountered an error processing your request. Please try again."

\* a prior turn of the conversation
Turn(role, content) == [role |-> role, content |-> content]

\* the histories and messages a caller passes: history absent, empty, and
\* turns in both orders, one of them a user turn equal to a message
Histories ==
    { None, Some(<<>>),
      Some(<<Turn("user", "hi")>>),
      Some(<<Turn("user", "hi"), Turn("assistant", "hello")>>),
      Some(<<Turn("assistant", "hello"), Turn("user", "hi")>>),
      Some(<<Turn("user", "add milk"), Turn("assistant", "added")>>) }

Messages == { "add milk", "list my tasks" }

\* mutant: the new message is put in front of the prior turns
BuildMessages_MessageFirst(conversation_history, message) ==
    <<Turn("user", message)>>
        \o (IF IsNone(conversation_history) THEN <<>> ELSE Val(conversation_history))

\* _run_agent: messages = []; if conversation_history: extend; append the
\* new user message
BuildMessages(conversation_history, message) ==
    LET messages0 == <<>>
        messages1 == IF ~IsNone(conversation_history) /\ Val(conversation_history) # <<>>
                     THEN messages0 \o Val(conversation_history)
                     ELSE messages0
    IN Append(messages1, Turn("user", message))

\* process_message_streaming: the same assembly, written out a second time
StreamBuildMessages(conversation_history, message) ==
    LET messages0 == <<>>
        messages1 == IF ~IsNone(conversation_history) /\ Val(conversation_history) # <<>>
                     THEN messages0 \o Val(conversation_history)
                     ELSE messages0
    IN Append(messages1, Turn("user", message))

\* mutant: the assembly works on the caller's list itself
\* (messages = conversation_history) and appends the new message to it
CallerHistoryAfter_InPlace(conversation_history, message) ==
    IF ~IsNone(conversation_history) /\ Val(conversation_history) # <<>>
    THEN Some(Append(Val(conversation_history), Turn("user", message)))
    ELSE conversation_history

\* the caller's conversation_history object after the assembly: messages is
\* a new list, extend reads the caller's list, append writes to messages
CallerHistoryAfter(conversation_history, message) ==
    LET messages0 == <<>>
        caller0 == conversation_history
        caller1 == IF ~IsNone(conversation_history) /\ Val(conversation_history) # <<>>
                   THEN Some(SubSeq(Val(caller0), 1, Len(Val(caller0))))
                   ELSE caller0
    IN caller1

\* a tool call the reasoning capability requested during a run
ToolCallRec(name, arguments, res) ==
    [name |-> name, arguments |-> arguments, result |-> res]

CallAdd == ToolCallRec("add_task_tool", "title=milk", "success")
CallList == ToolCallRec("list_tasks_tool", "status=all", "success")
CallComplete == ToolCallRec("complete_task_tool", "task_id=1", "error")

\* the object Runner.run hands back: the final output and the tool calls of
\* the run in the order they were requested.  _run_agent reads the calls
\* through hasattr(result, 'tool_calls') and each call's result through
\* hasattr(tool_call, 'result'): the object may or may not expose either.
RunObject(out, calls, has_tool_calls, has_result) ==
    [final_output |-> out, calls |-> calls,
     has_tool_calls |-> has_tool_calls, has_result |-> has_result]

\* the shapes of result object: both attributes, no result attribute on the
\* calls, no tool_calls attribute at all
RunShapes == { <<TRUE, TRUE>>, <<TRUE, FALSE>>, <<FALSE, FALSE>> }

\* what the runs of the bridge hand back
RunResults ==
    { RunObject("done", <<>>, TRUE, TRUE),
      RunObject("added", <<CallList, CallAdd>>, TRUE, TRUE),
      RunObject("added", <<CallList, CallAdd>>, FALSE, FALSE) }

\* what the runs of _run_agent on its own hand back
RunResultInputs ==
    { RunObject("ok", calls, sh[1], sh[2]) :
        calls \in { <<>>, <<CallAdd>>, <<CallList, CallComplete>>,
                    <<CallComplete, CallList>>, <<CallAdd, CallAdd>> },
        sh \in RunShapes }

\* the loop over result.tool_calls of _run_agent: entered only when the
\* object has a non-empty tool_calls attribute; an entry's result is None
\* when the call has no result attribute
ExtractToolCalls(res) ==
    IF res.has_tool_calls /\ res.calls # <<>>
    THEN [i \in 1..Len(res.calls) |->
            [tool |-> res.calls[i].name, parameters |-> res.calls[i].arguments,
             result |-> IF res.has_result THEN Some(res.calls[i].result) ELSE None]]
    ELSE <<>>

\* the dict _run_agent returns
RunReturn(res) ==
    [response |-> res.final_output, tool_calls |-> ExtractToolCalls(res),
     model |-> OPENAI_MODEL, tokens_used |-> 0]

\* mutant: the handler leaves the error message out of the dict
Degraded_NoError(msg) ==
    [response |-> Apology, tool_calls |-> <<>>, model |-> OPENAI_MODEL,
     tokens_used |-> 0]

\* the dict the except handler of process_message returns
Degraded(msg) ==
    [response |-> Apology, tool_calls |-> <<>>, model |-> OPENAI_MODEL,
     tokens_used |-> 0, error |-> msg]

\* the event the except handler of process_message_streaming yields
ErrorEvent(msg) == [type |-> "error", error |-> msg]

Nothing == [kind |-> "none"]
Returning(v) == [kind |-> "return", value |-> v]
Raising(msg) == [kind |-> "raise", msg |-> msg]
Cancelling == [kind |-> "cancel"]

\* a call of process_message(user_id, message, history) begins
PmStart(r) ==
    /\ pc[r] = "idle"
    /\ started < MaxStarts
    /\ started' = started + 1
    /\ pc' = [pc EXCEPT ![r] = "create_agent"]
    /\ agent' = [agent EXCEPT ![r] = None]
    /\ server' = [server EXCEPT ![r] = NoServer]
    /\ inflight' = [inflight EXCEPT ![r] = Nothing]
    /\ result' = [result EXCEPT ![r] = None]
    /\ raisedAt' = [raisedAt EXCEPT ![r] = "nowhere"]
    /\ calledUninit' = [calledUninit EXCEPT ![r] = FALSE]
    /\ kind' = [kind EXCEPT ![r] = "message"]
    /\ enters' = [enters EXCEPT ![r] = 0]
    /\ exits' = [exits EXCEPT ![r] = 0]
    /\ UNCHANGED <<mount, mcp_server, mcp_server_lock, constructed, session,
                   mcp_params>>

\* the try block is left by an Exception: the handler of process_message
\* returns the degraded dict, the handler of process_message_streaming
\* yields the error event and stays suspended at that yield
Caught(r, where, msg) ==
    /\ pc' = [pc EXCEPT ![r] = IF kind[r] = "stream" THEN "yield_error" ELSE "done"]
    /\ result' = [result EXCEPT ![r] =
                    IF kind[r] = "stream" THEN Some(ErrorEvent(msg))
                    ELSE Some(Degraded(msg))]
    /\ raisedAt' = [raisedAt EXCEPT ![r] = where]
    /\ inflight' = [inflight EXCEPT ![r] = Nothing]

\* the try block is left by CancelledError (or GeneratorExit), which
\* `except Exception` lets pass; `where` is the place the call was cancelled at
Propagated(r, where) ==
    /\ pc' = [pc EXCEPT ![r] = "cancelled"]
    /\ inflight' = [inflight EXCEPT ![r] = Nothing]
    /\ raisedAt' = [raisedAt EXCEPT ![r] = where]
    /\ UNCHANGED result

\* create_task_agent, mounted mode: closures and Agent, no server
CreateDirect(r) ==
    /\ pc[r] = "create_agent"
    /\ mount
    /\ \E u \in RequestUsers : agent' = [agent EXCEPT ![r] = Some(DirectAgent(u))]
    /\ pc' = [pc EXCEPT ![r] = "run"]
    /\ UNCHANGED <<mount, mcp_server, mcp_server_lock, constructed, session,
                   server, inflight, result, raisedAt, calledUninit, started, kind,
                   enters, exits,
                   mcp_params>>

\* create_task_agent raises while building the binding of mounted mode
CreateDirectFault(r) ==
    /\ pc[r] = "create_agent"
    /\ mount
    /\ \E m \in FaultMessages : Caught(r, "create_task_agent", m)
    /\ UNCHANGED <<mount, mcp_server, mcp_server_lock, constructed, session,
                   agent, server, calledUninit, started, kind,
                   enters, exits,
                   mcp_params>>

\* mutant: create_task_agent asks for the connection in mounted mode as well
GmsInitLock_AnyMode(r) ==
    /\ pc[r] = "create_agent"
    /\ mcp_server_lock' = IF mcp_server_lock.exists THEN mcp_server_lock ELSE NewLock
    /\ pc' = [pc EXCEPT ![r] = "gms_acquire"]
    /\ calledUninit' = [calledUninit EXCEPT ![r] = (mcp_server = NoServer)]
    /\ UNCHANGED <<mount, mcp_server, constructed, session, agent, server,
                   inflight, result, raisedAt, started, kind, enters, exits,
                   mcp_params>>

\* create_task_agent, separate mode, enters get_mcp_server: the lock is
\* created on the first call (no suspension between the test and the store)
GmsInitLock(r) ==
    /\ pc[r] = "create_agent"
    /\ ~mount
    /\ mcp_server_lock' = IF mcp_server_lock.exists THEN mcp_server_lock ELSE NewLock
    /\ pc' = [pc EXCEPT ![r] = "gms_acquire"]
    /\ calledUninit' = [calledUninit EXCEPT ![r] = (mcp_server = NoServer)]
    /\ UNCHANGED <<mount, mcp_server, constructed, session, agent, server,
                   inflight, result, raisedAt, started, kind,
                   enters, exits,
                   mcp_params>>

\* `async with _mcp_server_lock`: taken at once when free, else the caller queues
LockAcquire(l, r) ==
    IF CanAcquireNow(l) THEN [l EXCEPT !.locked = TRUE]
    ELSE [l EXCEPT !.waiters = Append(@, r)]

GmsAcquire(r) ==
    /\ pc[r] = "gms_acquire"
    /\ mcp_server_lock' = LockAcquire(mcp_server_lock, r)
    /\ pc' = [pc EXCEPT ![r] =
                IF CanAcquireNow(mcp_server_lock) THEN "gms_check" ELSE "gms_wait"]
    /\ UNCHANGED <<mount, mcp_server, constructed, session, agent, server,
                   inflight, result, raisedAt, calledUninit, started, kind,
                   enters, exits,
                   mcp_params>>

\* a queued caller whose future was resolved takes the lock
GmsWake(r) ==
    /\ pc[r] = "gms_wait"
    /\ r \in mcp_server_lock.woken
    /\ mcp_server_lock' =
          [mcp_server_lock EXCEPT !.waiters = RemoveWaiter(@, r),
                                  !.woken = @ \ {r},
                                  !.locked = TRUE]
    /\ pc' = [pc EXCEPT ![r] = "gms_check"]
    /\ UNCHANGED <<mount, mcp_server, constructed, session, agent, server,
                   inflight, result, raisedAt, calledUninit, started, kind,
                   enters, exits,
                   mcp_params>>

\* mutant: the test for an existing instance is missing
NeedsConstruction_Always(s) == TRUE

\* `if _mcp_server is None`
NeedsConstruction(s) == s = NoServer

GmsCheck(r) ==
    /\ pc[r] = "gms_check"
    /\ pc' = [pc EXCEPT ![r] =
                IF NeedsConstruction(mcp_server) THEN "gms_construct" ELSE "gms_return"]
    /\ UNCHANGED <<mount, mcp_server, mcp_server_lock, constructed, session, agent,
                   server, inflight, result, raisedAt, calledUninit, started, kind,
                   enters, exits,
                   mcp_params>>

\* `_mcp_server = MCPServerStreamableHttp(...)`: a new object, stored in the global
GmsConstruct(r) ==
    /\ pc[r] = "gms_construct"
    /\ constructed' = constructed + 1
    /\ mcp_server' = constructed + 1
    /\ mcp_params' = Some([url |-> mcp_server_url(MCP_SERVER_URL, mount, API_PORT),
                           timeout |-> OPENAI_API_TIMEOUT])
    /\ pc' = [pc EXCEPT ![r] = "gms_return"]
    /\ UNCHANGED <<mount, mcp_server_lock, session, agent, server, inflight,
                   result, raisedAt, calledUninit, started, kind,
                   enters, exits>>

\* mutant: the failure of the constructor is swallowed and the call goes on
GmsConstructFault_Swallowed(r) ==
    /\ pc[r] = "gms_construct"
    /\ pc' = [pc EXCEPT ![r] = "gms_return"]
    /\ UNCHANGED <<mount, mcp_server, mcp_server_lock, constructed, session, agent,
                   server, inflight, result, raisedAt, calledUninit, started, kind,
                   enters, exits,
                   mcp_params>>

\* the constructor raises: the global is not assigned, the lock is released by
\* `async with`, and the exception reaches the caller of get_mcp_server
GmsConstructFault(r) ==
    /\ pc[r] = "gms_construct"
    /\ mcp_server_lock' = Release(mcp_server_lock)
    /\ \E m \in FaultMessages : Caught(r, "get_mcp_server", m)
    /\ UNCHANGED <<mount, mcp_server, constructed, session, agent, server,
                   calledUninit, started, kind,
                   enters, exits,
                   mcp_params>>

\* `return _mcp_server` leaves the guarded block; create_task_agent builds the
\* Agent around the handle and returns (agent, server)
GmsReturn(r) ==
    /\ pc[r] = "gms_return"
    /\ mcp_server_lock' = Release(mcp_server_lock)
    /\ server' = [server EXCEPT ![r] = mcp_server]
    /\ \E u \in RequestUsers : agent' = [agent EXCEPT ![r] = Some(RemoteAgent(u, mcp_server))]
    /\ pc' = [pc EXCEPT ![r] = "enter"]
    /\ UNCHANGED <<mount, mcp_server, constructed, session, inflight, result,
                   raisedAt, calledUninit, started, kind,
                   enters, exits,
                   mcp_params>>

\* MCPServerStreamableHttp.__aenter__: connect() opens the session of the handle
Connect(open, h) == open \cup {h}

\* MCPServerStreamableHttp.__aexit__: cleanup() closes the session of the handle
Cleanup(open, h) == open \ {h}

\* mutant: the run is started without entering the scoped session
PmEnter_Unscoped(r) ==
    /\ pc[r] = "enter"
    /\ pc' = [pc EXCEPT ![r] = "run"]
    /\ UNCHANGED <<mount, mcp_server, mcp_server_lock, constructed, session, agent,
                   server, inflight, result, raisedAt, calledUninit, started, kind,
                   enters, exits, mcp_params>>

\* `async with server:` is entered
PmEnter(r) ==
    /\ pc[r] = "enter"
    /\ session' = Connect(session, server[r])
    /\ enters' = [enters EXCEPT ![r] = @ + 1]
    /\ pc' = [pc EXCEPT ![r] = "run"]
    /\ UNCHANGED <<mount, mcp_server, mcp_server_lock, constructed, agent, server,
                   inflight, result, raisedAt, calledUninit, started, kind, exits,
                   mcp_params>>

\* __aenter__ raises: the block is not entered and __aexit__ is not run
PmEnterFault(r) ==
    /\ pc[r] = "enter"
    /\ \E m \in FaultMessages : Caught(r, "enter", m)
    /\ UNCHANGED <<mount, mcp_server, mcp_server_lock, constructed, session,
                   agent, server, calledUninit, started, kind,
                   enters, exits,
                   mcp_params>>

\* mutant: an exception of the run is handled inside the block, before __aexit__
Leave_RaiseHandledInside(r, how) ==
    IF server[r] = NoServer \/ how.kind = "raise"
    THEN CASE how.kind = "return" ->
                /\ pc' = [pc EXCEPT ![r] = "done"]
                /\ result' = [result EXCEPT ![r] = how.value]
                /\ UNCHANGED <<inflight, raisedAt>>
           [] how.kind = "raise" -> Caught(r, "run", how.msg)
           [] OTHER -> Propagated(r, "run")
    ELSE /\ pc' = [pc EXCEPT ![r] = "exit"]
         /\ inflight' = [inflight EXCEPT ![r] = how]
         /\ UNCHANGED <<result, raisedAt>>

\* mutant: a cancellation leaves the block without running __aexit__
Leave_CancelSkipsExit(r, how) ==
    IF server[r] = NoServer \/ how.kind = "cancel"
    THEN CASE how.kind = "return" ->
                /\ pc' = [pc EXCEPT ![r] = "done"]
                /\ result' = [result EXCEPT ![r] = how.value]
                /\ UNCHANGED <<inflight, raisedAt>>
           [] how.kind = "raise" -> Caught(r, "run", how.msg)
           [] OTHER -> Propagated(r, "run")
    ELSE /\ pc' = [pc EXCEPT ![r] = "exit"]
         /\ inflight' = [inflight EXCEPT ![r] = how]
         /\ UNCHANGED <<result, raisedAt>>

\* what leaves _run_agent goes straight out in mounted mode and through
\* __aexit__ of the shared server in separate mode
Leave(r, how) ==
    IF server[r] = NoServer
    THEN CASE how.kind = "return" ->
                /\ pc' = [pc EXCEPT ![r] = "done"]
                /\ result' = [result EXCEPT ![r] = how.value]
                /\ UNCHANGED <<inflight, raisedAt>>
           [] how.kind = "raise" -> Caught(r, "run", how.msg)
           [] OTHER -> Propagated(r, "run")
    ELSE /\ pc' = [pc EXCEPT ![r] = "exit"]
         /\ inflight' = [inflight EXCEPT ![r] = how]
         /\ UNCHANGED <<result, raisedAt>>

\* _run_agent: Runner.run returns and the result dict is built
PmRun(r) ==
    /\ pc[r] = "run"
    /\ kind[r] = "message"
    /\ \E res \in RunResults : Leave(r, Returning(Some(RunReturn(res))))
    /\ UNCHANGED <<mount, mcp_server, mcp_server_lock, constructed, session,
                   agent, server, calledUninit, started, kind,
                   enters, exits,
                   mcp_params>>

\* _run_agent: Runner.run or the extraction of its result raises
PmRunFault(r) ==
    /\ pc[r] = "run"
    /\ kind[r] = "message"
    /\ \E m \in FaultMessages : Leave(r, Raising(m))
    /\ UNCHANGED <<mount, mcp_server, mcp_server_lock, constructed, session,
                   agent, server, calledUninit, started, kind,
                   enters, exits,
                   mcp_params>>

\* the caller's task is cancelled while the run is suspended
PmRunCancel(r) ==
    /\ pc[r] = "run"
    /\ kind[r] = "message"
    /\ Leave(r, Cancelling)
    /\ UNCHANGED <<mount, mcp_server, mcp_server_lock, constructed, session,
                   agent, server, calledUninit, started, kind,
                   enters, exits,
                   mcp_params>>

\* `async with server:` is left: __aexit__ cleans the handle up, then the
\* return value, the exception or the cancellation goes on
PmExit(r) ==
    /\ pc[r] = "exit"
    /\ session' = Cleanup(session, server[r])
    /\ exits' = [exits EXCEPT ![r] = @ + 1]
    /\ CASE inflight[r].kind = "return" ->
              /\ pc' = [pc EXCEPT ![r] = "done"]
              /\ result' = [result EXCEPT ![r] = inflight[r].value]
              /\ inflight' = [inflight EXCEPT ![r] = Nothing]
              /\ UNCHANGED raisedAt
         [] inflight[r].kind = "raise" -> Caught(r, "run", inflight[r].msg)
         [] OTHER -> Propagated(r, "run")
    /\ UNCHANGED <<mount, mcp_server, mcp_server_lock, constructed, agent, server,
                   calledUninit, started, kind, enters,
                   mcp_params>>

\* the caller's task is cancelled while it waits for the lock: asyncio.Lock
\* drops the waiter and, the lock being free, wakes the next one
CancelWaiter(l, r) ==
    LET l2 == [l EXCEPT !.waiters = RemoveWaiter(@, r), !.woken = @ \ {r}]
    IN IF l2.locked THEN l2 ELSE WakeUpFirst(l2)

GmsWaitCancel(r) ==
    /\ pc[r] = "gms_wait"
    /\ mcp_server_lock' = CancelWaiter(mcp_server_lock, r)
    /\ Propagated(r, "lock_wait")
    /\ UNCHANGED <<mount, mcp_server, constructed, session, agent, server,
                   calledUninit, started, kind,
                   enters, exits,
                   mcp_params>>

\* mutant: the lock is not released when the holder is cancelled
GmsHeldCancel_LockKept(r) ==
    /\ pc[r] \in {"gms_check", "gms_construct", "gms_return"}
    /\ Propagated(r, IF pc[r] = "gms_construct" THEN "construction" ELSE "guarded")
    /\ UNCHANGED <<mount, mcp_server, mcp_server_lock, constructed, session, agent,
                   server, calledUninit, started, kind, enters, exits,
                   mcp_params>>

\* the caller's task is cancelled inside the guarded block: `async with`
\* releases the lock and the global keeps the value it had
GmsHeldCancel(r) ==
    /\ pc[r] \in {"gms_check", "gms_construct", "gms_return"}
    /\ mcp_server_lock' = Release(mcp_server_lock)
    /\ Propagated(r, IF pc[r] = "gms_construct" THEN "construction" ELSE "guarded")
    /\ UNCHANGED <<mount, mcp_server, constructed, session, agent, server,
                   calledUninit, started, kind,
                   enters, exits,
                   mcp_params>>

\* the caller's task is cancelled while __aenter__ is suspended
PmEnterCancel(r) ==
    /\ pc[r] = "enter"
    /\ Propagated(r, "enter")
    /\ UNCHANGED <<mount, mcp_server, mcp_server_lock, constructed, session,
                   agent, server, calledUninit, started, kind,
                   enters, exits,
                   mcp_params>>

\* the caller is through with the call and may call again: the locals of the
\* finished call are gone
PmFinish(r) ==
    /\ pc[r] \in {"done", "cancelled"}
    /\ pc' = [pc EXCEPT ![r] = "idle"]
    /\ agent' = [agent EXCEPT ![r] = None]
    /\ server' = [server EXCEPT ![r] = NoServer]
    /\ result' = [result EXCEPT ![r] = None]
    /\ raisedAt' = [raisedAt EXCEPT ![r] = "nowhere"]
    /\ calledUninit' = [calledUninit EXCEPT ![r] = FALSE]
    /\ kind' = [kind EXCEPT ![r] = "message"]
    /\ enters' = [enters EXCEPT ![r] = 0]
    /\ exits' = [exits EXCEPT ![r] = 0]
    /\ UNCHANGED <<mount, mcp_server, mcp_server_lock, constructed, session,
                   inflight, started,
                   mcp_params>>

\* a consumer starts to iterate process_message_streaming(user_id, message,
\* history): the body of the generator begins with the first __anext__
PsStart(r) ==
    /\ pc[r] = "idle"
    /\ started < MaxStarts
    /\ started' = started + 1
    /\ pc' = [pc EXCEPT ![r] = "create_agent"]
    /\ agent' = [agent EXCEPT ![r] = None]
    /\ server' = [server EXCEPT ![r] = NoServer]
    /\ inflight' = [inflight EXCEPT ![r] = Nothing]
    /\ result' = [result EXCEPT ![r] = None]
    /\ raisedAt' = [raisedAt EXCEPT ![r] = "nowhere"]
    /\ calledUninit' = [calledUninit EXCEPT ![r] = FALSE]
    /\ kind' = [kind EXCEPT ![r] = "stream"]
    /\ enters' = [enters EXCEPT ![r] = 0]
    /\ exits' = [exits EXCEPT ![r] = 0]
    /\ UNCHANGED <<mount, mcp_server, mcp_server_lock, constructed, session,
                   mcp_params>>

\* result.stream_events() delivers an event: the generator yields it and is
\* suspended at the yield
PsEvent(r) ==
    /\ pc[r] = "run"
    /\ kind[r] = "stream"
    /\ pc' = [pc EXCEPT ![r] = "yielded"]
    /\ UNCHANGED <<mount, mcp_server, mcp_server_lock, constructed, session,
                   agent, server, inflight, result, raisedAt, calledUninit,
                   started, kind, enters, exits,
                   mcp_params>>

\* the consumer asks for the next event: the generator resumes its loop
PsNext(r) ==
    /\ pc[r] = "yielded"
    /\ pc' = [pc EXCEPT ![r] = "run"]
    /\ UNCHANGED <<mount, mcp_server, mcp_server_lock, constructed, session,
                   agent, server, inflight, result, raisedAt, calledUninit,
                   started, kind, enters, exits,
                   mcp_params>>

\* the events are exhausted: the loop and the body of the generator end
PsEnd(r) ==
    /\ pc[r] = "run"
    /\ kind[r] = "stream"
    /\ Leave(r, Returning(None))
    /\ UNCHANGED <<mount, mcp_server, mcp_server_lock, constructed, session,
                   agent, server, calledUninit, started, kind,
                   enters, exits,
                   mcp_params>>

\* Runner.run_streamed or the iteration of its events raises
PsFault(r) ==
    /\ pc[r] = "run"
    /\ kind[r] = "stream"
    /\ \E m \in FaultMessages : Leave(r, Raising(m))
    /\ UNCHANGED <<mount, mcp_server, mcp_server_lock, constructed, session,
                   agent, server, calledUninit, started, kind,
                   enters, exits,
                   mcp_params>>

\* the consumer's task is cancelled while the generator waits for an event
PsCancel(r) ==
    /\ pc[r] = "run"
    /\ kind[r] = "stream"
    /\ Leave(r, Cancelling)
    /\ UNCHANGED <<mount, mcp_server, mcp_server_lock, constructed, session,
                   agent, server, calledUninit, started, kind,
                   enters, exits,
                   mcp_params>>

\* the consumer closes the stream while the generator is suspended at
\* `yield event`: GeneratorExit is raised at the yield and, like
\* CancelledError, passes `except Exception`
PsClose(r) ==
    /\ pc[r] = "yielded"
    /\ Leave(r, Cancelling)
    /\ UNCHANGED <<mount, mcp_server, mcp_server_lock, constructed, session,
                   agent, server, calledUninit, started, kind,
                   enters, exits,
                   mcp_params>>

\* the consumer asks for the event after the error event: the generator ends
PsErrorNext(r) ==
    /\ pc[r] = "yield_error"
    /\ pc' = [pc EXCEPT ![r] = "done"]
    /\ UNCHANGED <<mount, mcp_server, mcp_server_lock, constructed, session,
                   agent, server, inflight, result, raisedAt, calledUninit,
                   started, kind, enters, exits,
                   mcp_params>>

\* the consumer closes the stream at the error event
PsErrorClose(r) ==
    /\ pc[r] = "yield_error"
    /\ Propagated(r, raisedAt[r])
    /\ UNCHANGED <<mount, mcp_server, mcp_server_lock, constructed, session,
                   agent, server, calledUninit, started, kind,
                   enters, exits,
                   mcp_params>>

BridgeInit ==
    /\ \E cfg \in SettingsInputs :
          /\ mount = cfg.MOUNT_MCP_SERVER
          /\ MCP_SERVER_URL = cfg.MCP_SERVER_URL
          /\ API_PORT = cfg.API_PORT
    /\ mcp_params = None
    /\ mcp_server = NoServer
    /\ mcp_server_lock = NoLock
    /\ constructed = 0
    /\ session = {}
    /\ pc = [r \in Reqs |-> "idle"]
    /\ agent = [r \in Reqs |-> None]
    /\ server = [r \in Reqs |-> NoServer]
    /\ inflight = [r \in Reqs |-> Nothing]
    /\ result = [r \in Reqs |-> None]
    /\ raisedAt = [r \in Reqs |-> "nowhere"]
    /\ calledUninit = [r \in Reqs |-> FALSE]
    /\ started = 0
    /\ kind = [r \in Reqs |-> "message"]
    /\ enters = [r \in Reqs |-> 0]
    /\ exits = [r \in Reqs |-> 0]

\* a step of the bridge leaves the task store alone; the settings are read only
Bridge(A) == A /\ UNCHANGED <<taskVars, chatkitVars, MCP_SERVER_URL, API_PORT>>

BridgeNext ==
    \E r \in Reqs :
        \/ Bridge(PmStart(r))
        \/ Bridge(CreateDirect(r))
        \/ Bridge(CreateDirectFault(r))
        \/ Bridge(GmsInitLock(r))
        \/ Bridge(GmsAcquire(r))
        \/ Bridge(GmsWake(r))
        \/ Bridge(GmsCheck(r))
        \/ Bridge(GmsConstruct(r))
        \/ Bridge(GmsConstructFault(r))
        \/ Bridge(GmsReturn(r))
        \/ Bridge(PmEnter(r))
        \/ Bridge(PmEnterFault(r))
        \/ Bridge(PmRun(r))
        \/ Bridge(PmRunFault(r))
        \/ Bridge(PmRunCancel(r))
        \/ Bridge(PmExit(r))
        \/ Bridge(GmsWaitCancel(r))
        \/ Bridge(GmsHeldCancel(r))
        \/ Bridge(PmEnterCancel(r))
        \/ Bridge(PmFinish(r))

\* the steps of requests that come through either entry point
StreamNext ==
    \E r \in Reqs :
        \/ Bridge(PmStart(r))
        \/ Bridge(PmRun(r))
        \/ Bridge(PmRunFault(r))
        \/ Bridge(PmRunCancel(r))
        \/ Bridge(PsStart(r))
        \/ Bridge(CreateDirect(r))
        \/ Bridge(CreateDirectFault(r))
        \/ Bridge(GmsInitLock(r))
        \/ Bridge(GmsAcquire(r))
        \/ Bridge(GmsWake(r))
        \/ Bridge(GmsCheck(r))
        \/ Bridge(GmsConstruct(r))
        \/ Bridge(GmsConstructFault(r))
        \/ Bridge(GmsReturn(r))
        \/ Bridge(PmEnter(r))
        \/ Bridge(PmEnterFault(r))
        \/ Bridge(PsEvent(r))
        \/ Bridge(PsNext(r))
        \/ Bridge(PsEnd(r))
        \/ Bridge(PsFault(r))
        \/ Bridge(PsCancel(r))
        \/ Bridge(PsClose(r))
        \/ Bridge(PsErrorNext(r))
        \/ Bridge(PsErrorClose(r))
        \/ Bridge(PmExit(r))
        \/ Bridge(GmsWaitCancel(r))
        \/ Bridge(GmsHeldCancel(r))
        \/ Bridge(PmEnterCancel(r))
        \/ Bridge(PmFinish(r))

\* the steps of callers of get_mcp_server: calls in separate mode up to the
\* return of the handle, after which the call ends without a run
GmsNext ==
    \E r \in Reqs :
        \/ Bridge(PmStart(r))
        \/ Bridge(GmsInitLock(r))
        \/ Bridge(GmsAcquire(r))
        \/ Bridge(GmsWake(r))
        \/ Bridge(GmsCheck(r))
        \/ Bridge(GmsConstruct(r))
        \/ Bridge(GmsConstructFault(r))
        \/ Bridge(GmsReturn(r))
        \/ Bridge(GmsWaitCancel(r))
        \/ Bridge(GmsHeldCancel(r))
        \/ Bridge(PmEnterFault(r))
        \/ Bridge(PmEnterCancel(r))
        \/ Bridge(PmFinish(r))

\* fair scheduling of get_mcp_server: a caller that can take its next step
\* inside get_mcp_server eventually takes it (or is cancelled first)
GmsFairness ==
    \A r \in Reqs :
        /\ WF_vars(Bridge(GmsAcquire(r)))
        /\ WF_vars(Bridge(GmsWake(r)))
        /\ WF_vars(Bridge(GmsCheck(r)))
        /\ WF_vars(Bridge(GmsConstruct(r)) \/ Bridge(GmsConstructFault(r)))
        /\ WF_vars(Bridge(GmsReturn(r)))

----------------------------------------------------------------------------
(* Strings *)

(* A string the code measures or trims is kept run-length encoded: the       *)
(* sequence of its maximal runs [ch, n] of n >= 1 equal characters, so that  *)
(* two strings are equal exactly when their encodings are.                   *)

\* the string of n >= 1 characters c
Rep(c, n) == <<[ch |-> c, n |-> n]>>

EmptyStr == <<>>

RECURSIVE StrLen(_)
\* len(s)
StrLen(s) == IF s = <<>> THEN 0 ELSE Head(s).n + StrLen(Tail(s))

\* the characters str.strip() removes
Whitespace == {" ", "\t", "\n"}

RECURSIVE LStrip(_)
LStrip(s) ==
    IF s = <<>> THEN s
    ELSE IF Head(s).ch \in Whitespace THEN LStrip(Tail(s)) ELSE s

RECURSIVE RStrip(_)
RStrip(s) ==
    IF s = <<>> THEN s
    ELSE IF s[Len(s)].ch \in Whitespace THEN RStrip(SubSeq(s, 1, Len(s) - 1)) ELSE s

\* str.strip(): leading and trailing whitespace removed
Strip(s) == RStrip(LStrip(s))

----------------------------------------------------------------------------
(* Task operations: tools/server.py add_task *)

MaxTitleLen == 200
MaxDescriptionLen == 1000
MaxUserIdLen == 255

\* where the persistence layer fails during a call, if it does
Faults == {"none", "validation", "add", "commit", "refresh"}

ErrorEnvelope(msg) == [status |-> "error", error |-> msg]

\* str(task.id)
IdStr(id) == <<"uuid", id>>

\* Task(user_id=..., title=..., description=...): id, completed and created_at
\* take their defaults
\* the defaults of the Task entity (models.py is imported, not part of the
\* sources): an id generated on creation, different from every id generated
\* before, and a completion flag that starts false
TaskIdDefault(nid) == nid + 1

TaskCompletedDefault == FALSE

\* mutant: the description is not handed to the Task
NewTask_NoDescription(id, user_id, title, description) ==
    [id |-> id, user_id |-> user_id, title |-> title, description |-> None,
     completed |-> TaskCompletedDefault, created_at |-> id]

\* Task(user_id=user_id, title=title.strip(), description=description)
NewTask(id, user_id, title, description) ==
    [id |-> id, user_id |-> user_id, title |-> title, description |-> description,
     completed |-> TaskCompletedDefault, created_at |-> id]

\* the data payload add_task returns for a task
TaskView(t) ==
    [task_id |-> IdStr(t.id), title |-> t.title, description |-> t.description,
     completed |-> t.completed, created_at |-> t.created_at]

SuccessEnvelope(data) == [status |-> "success", data |-> data]

\* `not title or len(title.strip()) == 0`
TitleBlank(title) == StrLen(title) = 0 \/ StrLen(Strip(title)) = 0

\* mutant: the limit is applied to the trimmed title
TitleTooLong_Trimmed(title) == StrLen(Strip(title)) > MaxTitleLen

\* `len(title) > 200`
TitleTooLong(title) == StrLen(title) > MaxTitleLen

\* `description and len(description) > 1000`
DescriptionTooLong(description) ==
    /\ ~IsNone(description)
    /\ StrLen(Val(description)) > 0
    /\ StrLen(Val(description)) > MaxDescriptionLen

\* mutant: only the upper limit of the user_id is checked
UserIdInvalid_EmptyAllowed(user_id) == StrLen(user_id) > MaxUserIdLen

\* `not user_id or len(user_id) > 255`
UserIdInvalid(user_id) == StrLen(user_id) = 0 \/ StrLen(user_id) > MaxUserIdLen

\* mutant: the title is stored as given
StoredTitle_Untrimmed(title) == title

\* the title add_task stores
StoredTitle(title) == Strip(title)

\* mutant: a failure of the persistence layer leaves add_task as an exception
Persist_Uncaught(user_id, title, description, fault, store, nid) ==
    LET task == NewTask(nid + 1, user_id, Strip(title), description)
    IN IF fault = "none"
       THEN [envelope |-> SuccessEnvelope(TaskView(task)),
             tasks |-> Append(store, task), next_id |-> nid + 1]
       ELSE [envelope |-> [status |-> "raised", exception |-> fault],
             tasks |-> store, next_id |-> nid]

\* the try block of add_task: a fault before the commit has taken effect leaves
\* the store as it was, one in refresh comes after the row was committed
Persist(user_id, title, description, fault, store, nid) ==
    LET task == NewTask(TaskIdDefault(nid), user_id, StoredTitle(title), description)
    IN CASE fault = "validation" ->
              [envelope |-> ErrorEnvelope("Validation error"),
               tasks |-> store, next_id |-> nid]
         [] fault \in {"add", "commit"} ->
              [envelope |-> ErrorEnvelope("Failed to create task"),
               tasks |-> store, next_id |-> nid]
         [] fault = "refresh" ->
              [envelope |-> ErrorEnvelope("Failed to create task"),
               tasks |-> Append(store, task), next_id |-> nid + 1]
         [] OTHER ->
              [envelope |-> SuccessEnvelope(TaskView(task)),
               tasks |-> Append(store, task), next_id |-> nid + 1]

\* add_task(user_id, title, description): the envelope returned, and the store
\* and id counter afterwards
add_task(user_id, title, description, fault, store, nid) ==
    IF TitleBlank(title)
    THEN [envelope |-> ErrorEnvelope("Title must be between 1 and 200 characters"),
          tasks |-> store, next_id |-> nid]
    ELSE IF TitleTooLong(title)
    THEN [envelope |-> ErrorEnvelope("Title must be between 1 and 200 characters"),
          tasks |-> store, next_id |-> nid]
    ELSE IF DescriptionTooLong(description)
    THEN [envelope |-> ErrorEnvelope("Description must be 1000 characters or less"),
          tasks |-> store, next_id |-> nid]
    ELSE IF UserIdInvalid(user_id)
    THEN [envelope |-> ErrorEnvelope("User ID must be between 1 and 255 characters"),
          tasks |-> store, next_id |-> nid]
    ELSE Persist(user_id, title, description, fault, store, nid)

----------------------------------------------------------------------------
(* Task operations list_tasks, complete_task, update_task, delete_task:      *)
(* imported by create_task_agent from tools.server; modelled from the task   *)
(* operation contracts of the specification (section 4.1).                   *)

NotFound == ErrorEnvelope("Task not found")

Unchanged(env, store, nid) == [envelope |-> env, tasks |-> store, next_id |-> nid]

\* positions of the tasks with this id string owned by this user
Owned(user_id, task_id, store) ==
    {i \in 1..Len(store) : IdStr(store[i].id) = task_id /\ store[i].user_id = user_id}

MatchesStatus(t, status) ==
    \/ status = "all"
    \/ status = "pending" /\ ~t.completed
    \/ status = "completed" /\ t.completed

\* list(user_id, status_filter): the views of the user's tasks, in insertion order
list_tasks(user_id, status, store, nid) ==
    LET mine == SelectSeq(store, LAMBDA t : t.user_id = user_id /\ MatchesStatus(t, status))
    IN Unchanged(SuccessEnvelope([tasks |-> [i \in 1..Len(mine) |-> TaskView(mine[i])]]),
                 store, nid)

\* complete(user_id, task_id)
complete_task(user_id, task_id, store, nid) ==
    LET hit == Owned(user_id, task_id, store)
    IN IF hit = {} THEN Unchanged(NotFound, store, nid)
       ELSE LET i == CHOOSE j \in hit : TRUE
                t == [store[i] EXCEPT !.completed = TRUE]
            IN [envelope |-> SuccessEnvelope(TaskView(t)),
                tasks |-> [store EXCEPT ![i] = t], next_id |-> nid]

\* update(user_id, task_id, title?, description?)
update_task(user_id, task_id, title, description, store, nid) ==
    LET hit == Owned(user_id, task_id, store)
    IN IF IsNone(title) /\ IsNone(description)
       THEN Unchanged(ErrorEnvelope("At least one field must be provided"), store, nid)
       ELSE IF ~IsNone(title) /\ (TitleBlank(Val(title)) \/ TitleTooLong(Val(title)))
       THEN Unchanged(ErrorEnvelope("Title must be between 1 and 200 characters"),
                      store, nid)
       ELSE IF DescriptionTooLong(description)
       THEN Unchanged(ErrorEnvelope("Description must be 1000 characters or less"),
                      store, nid)
       ELSE IF hit = {} THEN Unchanged(NotFound, store, nid)
       ELSE LET i == CHOOSE j \in hit : TRUE
                t == [store[i] EXCEPT
                        !.title = IF IsNone(title) THEN @ ELSE Strip(Val(title)),
                        !.description = IF IsNone(description) THEN @ ELSE description]
            IN [envelope |-> SuccessEnvelope(TaskView(t)),
                tasks |-> [store EXCEPT ![i] = t], next_id |-> nid]

\* delete(user_id, task_id)
delete_task(user_id, task_id, store, nid) ==
    LET hit == Owned(user_id, task_id, store)
    IN IF hit = {} THEN Unchanged(NotFound, store, nid)
       ELSE LET i == CHOOSE j \in hit : TRUE
            IN [envelope |-> SuccessEnvelope([task_id |-> task_id]),
                tasks |-> SubSeq(store, 1, i - 1) \o SubSeq(store, i + 1, Len(store)),
                next_id |-> nid]

----------------------------------------------------------------------------
(* Tool binding layer: the closures of create_task_agent (mounted mode) and  *)
(* the MCP tool wrapper of tools/server.py (separate mode)                   *)

\* mutant: the closure acts for one fixed user instead of the bound one
add_task_tool_SharedUser(user_id, title, description, fault, store, nid) ==
    add_task(U1, title, description, fault, store, nid)

\* def add_task_tool(title, description=None): return add_task(user_id, ...)
add_task_tool(user_id, title, description, fault, store, nid) ==
    add_task(user_id, title, description, fault, store, nid)

\* mutant: the closure lists the tasks of a fixed user
list_tasks_tool_SharedUser(user_id, status, store, nid) ==
    list_tasks(U1, status, store, nid)

\* def list_tasks_tool(status="all"): return list_tasks(user_id, status)
list_tasks_tool(user_id, status, store, nid) ==
    list_tasks(user_id, status, store, nid)

\* def complete_task_tool(task_id): return complete_task(user_id, task_id)
complete_task_tool(user_id, task_id, store, nid) ==
    complete_task(user_id, task_id, store, nid)

\* def update_task_tool(task_id, title=None, description=None)
update_task_tool(user_id, task_id, title, description, store, nid) ==
    update_task(user_id, task_id, title, description, store, nid)

\* def delete_task_tool(task_id): return delete_task(user_id, task_id)
delete_task_tool(user_id, task_id, store, nid) ==
    delete_task(user_id, task_id, store, nid)

\* @mcp.tool() add_task_tool(user_id, title, description=None) of tools/server.py
mcp_add_task_tool(user_id, title, description, fault, store, nid) ==
    add_task(user_id, title, description, fault, store, nid)

\* the tool calls a reasoning capability makes on a binding of mounted mode
ToolTitles == { EmptyStr, Rep(" ", 1) \o Rep("a", 1) }
ToolDescriptions == { None }
ToolStatuses == { "all", "pending", "completed" }
ToolTaskIds == { IdStr(i) : i \in 1..MaxTasks }
ToolFaults == { "none", "commit" }

DirectCalls ==
    [name : {"add_task_tool"}, title : ToolTitles, description : ToolDescriptions,
     fault : ToolFaults]
    \cup [name : {"list_tasks_tool"}, status : ToolStatuses]
    \cup [name : {"complete_task_tool", "delete_task_tool"}, task_id : ToolTaskIds]
    \cup [name : {"update_task_tool"}, task_id : ToolTaskIds,
          title : {None, Some(Rep("b", 1))}, description : ToolDescriptions]

\* the tool list of the Agent of mounted mode dispatches a call by its name
DirectDispatch(user_id, call, store, nid) ==
    CASE call.name = "add_task_tool" ->
            add_task_tool(user_id, call.title, call.description, call.fault, store, nid)
      [] call.name = "list_tasks_tool" ->
            list_tasks_tool(user_id, call.status, store, nid)
      [] call.name = "complete_task_tool" ->
            complete_task_tool(user_id, call.task_id, store, nid)
      [] call.name = "update_task_tool" ->
            update_task_tool(user_id, call.task_id, call.title, call.description,
                             store, nid)
      [] call.name = "delete_task_tool" ->
            delete_task_tool(user_id, call.task_id, store, nid)

\* the reasoning capability calls a tool of the binding built for user `bound`
DirectToolCall(bound, call) ==
    LET o == DirectDispatch(bound, call, tasks, next_id)
    IN /\ call.name = "add_task_tool" => next_id < MaxTasks
       /\ tasks' = o.tasks
       /\ next_id' = o.next_id
       /\ last' = [op |-> call.name, via |-> "direct", bound |-> bound,
                   call |-> call, result |-> o.envelope]
       /\ UNCHANGED <<bridgeVars, chatkitVars>>

\* the reasoning capability calls the MCP tool: every argument, user_id
\* included, is its choice
McpToolCall(user_id, title, description, fault) ==
    LET o == mcp_add_task_tool(user_id, title, description, fault, tasks, next_id)
    IN /\ next_id < MaxTasks
       /\ tasks' = o.tasks
       /\ next_id' = o.next_id
       /\ last' = [op |-> "add_task_tool", via |-> "mcp", user_id |-> user_id,
                   title |-> title, description |-> description, fault |-> fault,
                   result |-> o.envelope]
       /\ UNCHANGED <<bridgeVars, chatkitVars>>

\* the inputs the calls of add_task are drawn from: the empty string, blank
\* and padded titles, and strings at and just over each length limit
TitleInputs ==
    { EmptyStr, Rep(" ", 1), Rep(" ", 1) \o Rep("a", 1) \o Rep(" ", 2),
      Rep("a", MaxTitleLen), Rep("a", MaxTitleLen + 1),
      Rep(" ", 1) \o Rep("a", MaxTitleLen) }

DescriptionInputs ==
    { None, Some(Rep("d", MaxDescriptionLen)), Some(Rep("d", MaxDescriptionLen + 1)) }

UserIdInputs ==
    { EmptyStr, Rep("u", MaxUserIdLen), Rep("u", MaxUserIdLen + 1) }

\* a caller (a test, the MCP tool wrapper) calls add_task
AddTaskCall(user_id, title, description, fault) ==
    LET o == add_task(user_id, title, description, fault, tasks, next_id)
    IN /\ Len(tasks) < MaxTasks
       /\ tasks' = o.tasks
       /\ next_id' = o.next_id
       /\ last' = [op |-> "add_task", via |-> "call", user_id |-> user_id,
                   title |-> title,
                   description |-> description, fault |-> fault,
                   result |-> o.envelope]
       /\ UNCHANGED <<bridgeVars, chatkitVars>>

\* _run_agent on its own: the message list is assembled, Runner.run hands
\* back res and the result dict is built
RunAgentCall(conversation_history, message, res) ==
    /\ last' = [op |-> "_run_agent", via |-> "process_message",
                history |-> conversation_history, message |-> message,
                messages |-> BuildMessages(conversation_history, message),
                calls |-> res.calls, shape |-> <<res.has_tool_calls, res.has_result>>,
                fault |-> None, result |-> RunReturn(res),
                history_after |-> CallerHistoryAfter(conversation_history, message)]
    /\ UNCHANGED <<bridgeVars, chatkitVars, tasks, next_id>>

\* the calls a run had applied when it raised
AppliedBeforeFault == { <<>>, <<CallAdd>>, <<CallList, CallComplete>> }

\* process_message around a run that raises after the reasoning capability
\* had the calls `applied` carried out: the except handler builds the dict
\* that is returned
RunFaultCall(conversation_history, message, applied, msg) ==
    /\ last' = [op |-> "process_message", via |-> "process_message",
                history |-> conversation_history, message |-> message,
                messages |-> BuildMessages(conversation_history, message),
                calls |-> applied, fault |-> Some(msg), result |-> Degraded(msg),
                history_after |-> CallerHistoryAfter(conversation_history, message)]
    /\ UNCHANGED <<bridgeVars, chatkitVars, tasks, next_id>>

\* process_message_streaming assembles the message list for Runner.run_streamed
StreamMessagesCall(conversation_history, message) ==
    /\ last' = [op |-> "run_streamed", via |-> "process_message_streaming",
                history |-> conversation_history, message |-> message,
                messages |-> StreamBuildMessages(conversation_history, message),
                history_after |-> CallerHistoryAfter(conversation_history, message)]
    /\ UNCHANGED <<bridgeVars, chatkitVars, tasks, next_id>>

\* process_message_streaming around a stream that raises: the except handler
\* yields the error event
StreamFaultCall(conversation_history, message, msg) ==
    /\ last' = [op |-> "process_message_streaming", via |-> "process_message_streaming",
                history |-> conversation_history, message |-> message,
                messages |-> StreamBuildMessages(conversation_history, message),
                fault |-> Some(msg), result |-> ErrorEvent(msg),
                history_after |-> CallerHistoryAfter(conversation_history, message)]
    /\ UNCHANGED <<bridgeVars, chatkitVars, tasks, next_id>>

----------------------------------------------------------------------------
(* SimpleMemoryStore *)

\* a Python dict as a function; d[k] = v and del d[k]
MapSet(d, k, v) == [x \in DOMAIN d \cup {k} |-> IF x = k THEN v ELSE d[x]]
MapDel(d, k) == [x \in DOMAIN d \ {k} |-> d[x]]
EmptyMap == [x \in {} |-> x]

\* a Python dict whose order is observed, as the sequence of its entries in
\* insertion order: d[k] = v keeps the place of a key that is present and
\* appends a new key; del d[k]; list(d.values())
DictKeys(d) == { d[i].id : i \in DOMAIN d }
DictSet(d, k, v) ==
    IF k \in DictKeys(d)
    THEN [i \in DOMAIN d |-> IF d[i].id = k THEN v ELSE d[i]]
    ELSE Append(d, v)
DictDel(d, k) == SelectSeq(d, LAMBDA e : e.id # k)
DictGet(d, k) == (CHOOSE i \in DOMAIN d : d[i].id = k)
DictValues(d) == d

\* seq[:limit] for limit >= 0
SliceTo(seq, limit) == SubSeq(seq, 1, IF limit < Len(seq) THEN limit ELSE Len(seq))

\* chatkit.store.Page
Page(data, has_more) == [data |-> data, has_more |-> has_more]

\* the outcome of a store method
StoreReturn(v) == [raised |-> FALSE, value |-> v]
StoreRaise(message) == [raised |-> TRUE, error |-> "ValueError", message |-> message]

\* the store object: SimpleMemoryStore.__init__
NewStore == [threads |-> <<>>, items |-> EmptyMap]

\* the store object as the two dicts it holds
Self == [threads |-> threads, items |-> items]

\* SimpleMemoryStore.load_thread
load_thread(self, thread_id) ==
    IF thread_id \notin DictKeys(self.threads)
    THEN StoreRaise("Thread " \o thread_id \o " not found")
    ELSE StoreReturn(self.threads[DictGet(self.threads, thread_id)])

\* SimpleMemoryStore.load_threads: `before` is not read
load_threads(self, limit, before) ==
    LET thread_list == DictValues(self.threads)
    IN Page(SliceTo(thread_list, limit), FALSE)

\* mutant: save_thread stores the metadata and leaves items alone
save_thread_NoItems(self, thread) ==
    [self EXCEPT !.threads = DictSet(self.threads, thread.id, thread)]

\* SimpleMemoryStore.save_thread
save_thread(self, thread) ==
    LET self1 == [self EXCEPT !.threads = DictSet(self.threads, thread.id, thread)]
    IN IF thread.id \notin DOMAIN self1.items
       THEN [self1 EXCEPT !.items = MapSet(self1.items, thread.id, <<>>)]
       ELSE self1

\* mutant: delete_thread removes the metadata and keeps the items
delete_thread_KeepsItems(self, thread_id) ==
    IF thread_id \in DictKeys(self.threads)
    THEN [self EXCEPT !.threads = DictDel(self.threads, thread_id)]
    ELSE self

\* SimpleMemoryStore.delete_thread
delete_thread(self, thread_id) ==
    LET self1 == IF thread_id \in DictKeys(self.threads)
                 THEN [self EXCEPT !.threads = DictDel(self.threads, thread_id)]
                 ELSE self
    IN IF thread_id \in DOMAIN self1.items
       THEN [self1 EXCEPT !.items = MapDel(self1.items, thread_id)]
       ELSE self1

\* SimpleMemoryStore.load_thread_items: `before` is not read, has_more is the
\* literal False
load_thread_items(self, thread_id, limit, before) ==
    IF thread_id \notin DOMAIN self.items
    THEN Page(<<>>, FALSE)
    ELSE LET its == DictValues(self.items[thread_id])
         IN Page(SliceTo(its, limit), FALSE)

\* SimpleMemoryStore.load_item
load_item(self, thread_id, item_id) ==
    IF thread_id \notin DOMAIN self.items \/ item_id \notin DictKeys(self.items[thread_id])
    THEN StoreRaise("Item " \o item_id \o " not found in thread " \o thread_id)
    ELSE StoreReturn(self.items[thread_id][DictGet(self.items[thread_id], item_id)])

\* SimpleMemoryStore.save_item
save_item(self, thread_id, item) ==
    LET self1 == IF thread_id \notin DOMAIN self.items
                 THEN [self EXCEPT !.items = MapSet(self.items, thread_id, <<>>)]
                 ELSE self
    IN [self1 EXCEPT !.items[thread_id] = DictSet(self1.items[thread_id], item.id, item)]

\* SimpleMemoryStore.add_thread_item
add_thread_item(self, thread_id, item) == save_item(self, thread_id, item)

\* SimpleMemoryStore.delete_thread_item
delete_thread_item(self, thread_id, item_id) ==
    IF thread_id \in DOMAIN self.items /\ item_id \in DictKeys(self.items[thread_id])
    THEN [self EXCEPT !.items[thread_id] = DictDel(self.items[thread_id], item_id)]
    ELSE self

\* the inputs of the store calls
ThreadIds == {"t1", "t2"}
ItemIds == {"i1", "i2"}
ItemTexts == {"a", "b"}
Limits == {0, 1, 2}
Befores == {None, Some("i1")}
ThreadInputs == { [id |-> t, title |-> "chat"] : t \in ThreadIds }
ItemInputs == { [id |-> i, text |-> x] : i \in ItemIds, x \in ItemTexts }

\* a mutating call of the store: the new dicts and the record of the call
StoreUpdate(op, thread_id, self1) ==
    /\ threads' = self1.threads
    /\ items' = self1.items
    /\ last' = [op |-> op, via |-> "SimpleMemoryStore", thread_id |-> thread_id]
    /\ UNCHANGED <<bridgeVars, tasks, next_id, respondVars>>

\* a reading call of the store: the record of the call and of its outcome
StoreRead(op, thread_id, limit, outcome) ==
    /\ last' = [op |-> op, via |-> "SimpleMemoryStore", thread_id |-> thread_id,
                limit |-> limit, result |-> outcome]
    /\ UNCHANGED <<bridgeVars, tasks, next_id, chatkitVars>>

SaveThreadCall(thread) == StoreUpdate("save_thread", thread.id, save_thread(Self, thread))
DeleteThreadCall(thread_id) ==
    StoreUpdate("delete_thread", thread_id, delete_thread(Self, thread_id))
SaveItemCall(thread_id, item) ==
    StoreUpdate("save_item", thread_id, save_item(Self, thread_id, item))
AddThreadItemCall(thread_id, item) ==
    StoreUpdate("add_thread_item", thread_id, add_thread_item(Self, thread_id, item))
DeleteThreadItemCall(thread_id, item_id) ==
    StoreUpdate("delete_thread_item", thread_id, delete_thread_item(Self, thread_id, item_id))
LoadThreadCall(thread_id) ==
    StoreRead("load_thread", thread_id, 0, load_thread(Self, thread_id))
LoadThreadsCall(limit, before) ==
    StoreRead("load_threads", "", limit, load_threads(Self, limit, before))
LoadThreadItemsCall(thread_id, limit, before) ==
    StoreRead("load_thread_items", thread_id, limit,
              load_thread_items(Self, thread_id, limit, before))
LoadItemCall(thread_id, item_id) ==
    StoreRead("load_item", thread_id, 0, load_item(Self, thread_id, item_id))

StoreInit ==
    /\ threads = NewStore.threads
    /\ items = NewStore.items

StoreNext ==
    \/ \E thread \in ThreadInputs : SaveThreadCall(thread)
    \/ \E t \in ThreadIds : DeleteThreadCall(t)
    \/ \E t \in ThreadIds, item \in ItemInputs : SaveItemCall(t, item)
    \/ \E t \in ThreadIds, item \in ItemInputs : AddThreadItemCall(t, item)
    \/ \E t \in ThreadIds, i \in ItemIds : DeleteThreadItemCall(t, i)
    \/ \E t \in ThreadIds : LoadThreadCall(t)
    \/ \E limit \in Limits, before \in Befores : LoadThreadsCall(limit, before)
    \/ \E t \in ThreadIds, limit \in Limits, before \in Befores :
          LoadThreadItemsCall(t, limit, before)
    \/ \E t \in ThreadIds, i \in ItemIds : LoadItemCall(t, i)

----------------------------------------------------------------------------
(* TaskManagerChatKitServer.respond *)

\* the parts of UserMessageItem.content: an object with a text attribute, a
\* dict with a 'text' key, a part without text
TextPart(text) == [kind |-> "object", has_text |-> TRUE, text |-> text]
DictPart(text) == [kind |-> "dict", has_text |-> TRUE, text |-> text]
ImagePart == [kind |-> "object", has_text |-> FALSE]

\* the inputs of respond
UserMessageItem(content) == [type |-> "user_message", content |-> content]
ClientToolCallItem == [type |-> "client_tool_call"]
ContentInputs == { <<TextPart("hi")>>, <<TextPart("add "), DictPart("milk")>>, <<ImagePart>> }
RespondInputs == { UserMessageItem(c) : c \in ContentInputs } \cup {ClientToolCallItem}
ContextInputs == { [user_id |-> Some(U1)], [user_id |-> None] }

\* the loop over input.content: the texts of the parts, concatenated
RECURSIVE UserMessageText(_)
UserMessageText(content) ==
    IF content = <<>> THEN ""
    ELSE LET part == content[Len(content)]
             before == UserMessageText(SubSeq(content, 1, Len(content) - 1))
         IN IF part.has_text THEN before \o part.text ELSE before

\* the f-string of the assistant turn
ResponseText(user_message) ==
    "I received your message: '" \o user_message
        \o "'. Full task management integration coming soon!"

\* Message(conversation_id=..., user_id=..., role=..., content=...) once
\* committed: the row with the key the database gave it
MessageRow(id, conversation_id, user_id, role, content) ==
    [id |-> id, conversation_id |-> conversation_id, user_id |-> user_id,
     role |-> role, content |-> content]

\* AssistantMessageItem(id=str(assistant_msg.id), content=[{type, text}])
AssistantMessageItem(id, text) ==
    [type |-> "assistant_message", id |-> IdStr(id),
     content |-> <<[type |-> "text", text |-> text]>>]

\* session.add(msg); session.commit(): the table with the new row at its end
Commit(table, conversation_id, user_id, role, content) ==
    Append(table, MessageRow(Len(table) + 1, conversation_id, user_id, role, content))

RespondLeaves == UNCHANGED <<bridgeVars, taskVars, storeVars>>

\* respond is called and runs to its first session: for a user message it
\* has the text of the message, for any other input it ends
RespondStart(thread, input, context) ==
    /\ respond.pc = "idle"
    /\ Len(message_table) + 2 <= 2 * MaxResponds
    /\ respond' = [pc |-> IF input.type = "user_message" THEN "save_user" ELSE "done",
                   thread |-> thread, input |-> input,
                   user_id |-> context.user_id,
                   user_message |-> IF input.type = "user_message"
                                    THEN UserMessageText(input.content) ELSE "",
                   msg |-> None, assistant_msg |-> None, yielded |-> <<>>]
    /\ UNCHANGED message_table
    /\ RespondLeaves

\* mutant: the call goes on to the assistant turn without committing the
\* user turn
RespondSaveUser_Skipped ==
    /\ respond.pc = "save_user"
    /\ respond' = [respond EXCEPT !.pc = "save_assistant"]
    /\ UNCHANGED message_table
    /\ RespondLeaves

\* the first session: the user turn is added and committed
RespondSaveUser ==
    /\ respond.pc = "save_user"
    /\ message_table' = Commit(message_table, respond.thread.id, respond.user_id,
                               "user", respond.user_message)
    /\ respond' = [respond EXCEPT !.pc = "save_assistant",
                                  !.msg = Some(Len(message_table'))]
    /\ RespondLeaves

\* a commit raises: respond has no handler, the exception leaves the
\* generator and the session rolls back
RespondCommitFault ==
    /\ respond.pc \in {"save_user", "save_assistant"}
    /\ respond' = [respond EXCEPT !.pc = "raised"]
    /\ UNCHANGED message_table
    /\ RespondLeaves

\* the second session: the assistant turn is added, committed and refreshed
RespondSaveAssistant ==
    /\ respond.pc = "save_assistant"
    /\ message_table' = Commit(message_table, respond.thread.id, respond.user_id,
                               "assistant", ResponseText(respond.user_message))
    /\ respond' = [respond EXCEPT !.pc = "yield",
                                  !.assistant_msg = Some(Len(message_table'))]
    /\ RespondLeaves

\* the yield of the assistant item, inside the second session
RespondYield ==
    /\ respond.pc = "yield"
    /\ respond' = [respond EXCEPT
                     !.pc = "suspended",
                     !.yielded = Append(@, AssistantMessageItem(
                                     message_table[Val(respond.assistant_msg)].id,
                                     ResponseText(respond.user_message)))]
    /\ UNCHANGED message_table
    /\ RespondLeaves

\* the consumer asks for the next event: the generator leaves the session
\* and ends
RespondResume ==
    /\ respond.pc = "suspended"
    /\ respond' = [respond EXCEPT !.pc = "done"]
    /\ UNCHANGED message_table
    /\ RespondLeaves

\* the consumer closes the generator at the yield
RespondClose ==
    /\ respond.pc = "suspended"
    /\ respond' = [respond EXCEPT !.pc = "closed"]
    /\ UNCHANGED message_table
    /\ RespondLeaves

\* the call is over; the server can be called again
RespondFinish ==
    /\ respond.pc \in {"done", "raised", "closed"}
    /\ respond' = [pc |-> "idle"]
    /\ UNCHANGED message_table
    /\ RespondLeaves

RespondInit ==
    /\ message_table = <<>>
    /\ respond = [pc |-> "idle"]

RespondNext ==
    \/ \E thread \in ThreadInputs, input \in RespondInputs, context \in ContextInputs :
          RespondStart(thread, input, context)
    \/ RespondSaveUser
    \/ RespondCommitFault
    \/ RespondSaveAssistant
    \/ RespondYield
    \/ RespondResume
    \/ RespondClose
    \/ RespondFinish

TaskInit ==
    /\ tasks = <<>>
    /\ next_id = 0
    /\ last = [op |-> "none", via |-> "none"]

Init == BridgeInit /\ TaskInit /\ StoreInit /\ RespondInit

Next == BridgeNext

Spec == Init /\ [][Next]_vars

AddTaskNext ==
    \E user_id \in UserIdInputs, title \in TitleInputs,
       description \in DescriptionInputs, fault \in Faults :
        AddTaskCall(user_id, title, description, fault)

\* the task operation add_task on its own, called with every kind of input
SpecAddTask == Init /\ [][AddTaskNext]_vars

ToolsNext ==
    \/ \E bound \in Users, call \in DirectCalls : DirectToolCall(bound, call)
    \/ \E user_id \in Users, title \in ToolTitles,
          description \in ToolDescriptions, fault \in ToolFaults :
          McpToolCall(user_id, title, description, fault)

\* the tool binding layer: tool calls of bindings of both modes on one store
SpecTools == Init /\ [][ToolsNext]_vars

RunNext ==
    \/ \E h \in Histories, m \in Messages, res \in RunResultInputs :
          RunAgentCall(h, m, res)
    \/ \E h \in Histories, m \in Messages, applied \in AppliedBeforeFault,
          msg \in FaultMessages : RunFaultCall(h, m, applied, msg)
    \/ \E h \in Histories, m \in Messages : StreamMessagesCall(h, m)
    \/ \E h \in Histories, m \in Messages, msg \in FaultMessages :
          StreamFaultCall(h, m, msg)

\* the data path of one run: message assembly and extraction of the call log
SpecRun == Init /\ [][RunNext]_vars

\* the bridge under calls of process_message and process_message_streaming
\* (started with the default URL settings of either deployment mode)
StreamInit == Init /\ MCP_SERVER_URL = None /\ API_PORT = 8000

SpecStream == StreamInit /\ [][StreamNext]_vars

\* get_mcp_server under fair scheduling, in separate mode
GmsInit == Init /\ ~mount /\ MCP_SERVER_URL = None

SpecGms == GmsInit /\ [][GmsNext]_vars /\ GmsFairness

\* the ChatKit adapter reads none of the settings of the bridge
ChatKitInit == Init /\ mount /\ MCP_SERVER_URL = None /\ API_PORT = 8000

\* the calls of SimpleMemoryStore, in any order
SpecStore == ChatKitInit /\ [][StoreNext]_vars

\* the calls of TaskManagerChatKitServer.respond, one after the other
SpecRespond == ChatKitInit /\ [][RespondNext]_vars

----------------------------------------------------------------------------
(* Properties *)

\* C1: concurrent first callers of get_mcp_server construct exactly one
\* MCPServerStreamableHttp object (the construction counter never passes 1)
\* and every caller that received a handle received that one object.
C1_ExactlyOneConstruction ==
    /\ constructed <= 1
    /\ \A r \in Reqs :
          server[r] # NoServer => constructed = 1 /\ server[r] = mcp_server

\* C1 witness: two callers that both called while the singleton was
\* uninitialized hold the same handle, one object having been constructed.
C1_Witness ==
    \E r1, r2 \in Reqs :
        /\ r1 # r2
        /\ calledUninit[r1] /\ calledUninit[r2]
        /\ server[r1] # NoServer /\ server[r1] = server[r2]
        /\ constructed = 1

\* C2 (as claimed): in separate mode a request that is inside its run on the
\* shared connection always finds the connection's session open: no other
\* request's completion, failure or cancellation has cleaned it up.
C2_NoTearDown ==
    \A r \in Reqs :
        pc[r] = "run" /\ server[r] # NoServer => server[r] \in session

\* C3 (as claimed): whenever process_message caught a fault, it returned the
\* fixed apology as response together with a non-empty error field.
C3_DegradedResultHasError ==
    \A r \in Reqs :
        pc[r] = "done" /\ raisedAt[r] # "nowhere" =>
            /\ ~IsNone(result[r])
            /\ Val(result[r]).response = Apology
            /\ "error" \in DOMAIN Val(result[r])
            /\ Val(result[r]).error # ""

\* C4: once the singleton is ready no step resets or replaces it, and every
\* handle a request holds is the singleton's, whatever requests succeeded,
\* failed or were cancelled before.
C4_NeverReplaced ==
    [][ /\ mcp_server # NoServer => mcp_server' = mcp_server
        /\ \A r \in Reqs : server'[r] # NoServer => server'[r] = mcp_server'
      ]_vars

\* C4 witness: after one request was cancelled and another returned the
\* degraded result, both having acquired the connection, a handle is held
\* and it is the singleton's.
C4_Witness ==
    \E r1, r2 \in Reqs :
        /\ pc[r1] = "cancelled" /\ server[r1] # NoServer
        /\ pc[r2] = "done" /\ raisedAt[r2] # "nowhere" /\ server[r2] # NoServer
        /\ server[r1] = mcp_server /\ server[r2] = mcp_server

\* C5: when the construction raises inside get_mcp_server the fault reaches
\* the caller, the singleton stays uninitialized and the lock is free; a
\* caller that finds the singleton uninitialized goes on to construct it, and
\* get_mcp_server never returns without an instance.
C5_ConstructionFailureSurfaces ==
    [][ \A r \in Reqs :
          /\ pc[r] = "gms_construct" /\ pc'[r] \notin {"gms_construct", "cancelled"} =>
                \/ /\ pc'[r] = "done"
                   /\ raisedAt'[r] = "get_mcp_server"
                   /\ "error" \in DOMAIN Val(result'[r])
                   /\ mcp_server' = NoServer
                   /\ constructed' = constructed
                   /\ ~mcp_server_lock'.locked
                \/ /\ pc'[r] = "gms_return"
                   /\ mcp_server' # NoServer
          /\ pc[r] = "gms_check" /\ mcp_server = NoServer /\ pc'[r] = "gms_return" => FALSE
      ]_vars

\* C5 witness: a call whose construction raised has returned the degraded
\* result, and afterwards another call constructed the instance and holds it.
C5_Witness ==
    \E r1, r2 \in Reqs :
        /\ pc[r1] = "done" /\ raisedAt[r1] = "get_mcp_server"
        /\ server[r2] # NoServer /\ server[r2] = mcp_server
        /\ constructed = 1

\* C6 (as claimed): the tool surface an agent offers the reasoning capability
\* is the same in both modes: it is the surface of mounted mode and it is
\* the surface of separate mode (same names, argument lists, return shapes).
C6_SameToolSurface ==
    \A r \in Reqs :
        ~IsNone(agent[r]) =>
            /\ ToolSurface(Val(agent[r])) = DirectTools
            /\ ToolSurface(Val(agent[r])) = McpTools

\* the task operation behind each tool name, called for user u
TaskOperation(u, c, store, nid) ==
    CASE c.name = "add_task_tool" ->
            add_task(u, c.title, c.description, c.fault, store, nid)
      [] c.name = "list_tasks_tool" -> list_tasks(u, c.status, store, nid)
      [] c.name = "complete_task_tool" -> complete_task(u, c.task_id, store, nid)
      [] c.name = "update_task_tool" ->
            update_task(u, c.task_id, c.title, c.description, store, nid)
      [] c.name = "delete_task_tool" -> delete_task(u, c.task_id, store, nid)

OthersTasks(store, u) == SelectSeq(store, LAMBDA t : t.user_id # u)

\* C7: a tool call on the binding built for user u returns what the task
\* operation returns for (u, arguments), changes the store as that operation
\* does, and leaves the tasks of every other user as they were.
C7_DirectBindingIsWiring ==
    [][ last'.via = "direct" =>
          LET o == TaskOperation(last'.bound, last'.call, tasks, next_id)
          IN /\ last'.result = o.envelope
             /\ tasks' = o.tasks
             /\ OthersTasks(tasks', last'.bound) = OthersTasks(tasks, last'.bound)
      ]_vars

\* C7 witness: the binding of one user was asked to complete a task of
\* another user and answered that there is no such task.
C7_Witness ==
    /\ last.via = "direct"
    /\ last.op = "complete_task_tool"
    /\ last.result = NotFound
    /\ \E i \in 1..Len(tasks) :
          /\ IdStr(tasks[i].id) = last.call.task_id
          /\ tasks[i].user_id # last.bound
          /\ ~tasks[i].completed

\* C8 (as claimed): title of at most 200 characters, description of at most
\* 1000, user_id of at most 255: add_task succeeds and data.title is the
\* trimmed title.
C8_AnyShortInputSucceeds ==
    ( /\ last.op = "add_task"
      /\ StrLen(last.title) <= MaxTitleLen
      /\ (IsNone(last.description) \/ StrLen(Val(last.description)) <= MaxDescriptionLen)
      /\ StrLen(last.user_id) <= MaxUserIdLen )
    => /\ last.result.status = "success"
       /\ last.result.data.title = Strip(last.title)

\* C8 (amended): title of at most 200 characters that is not empty after
\* trimming, description absent or of at most 1000 characters, user_id of
\* 1 to 255 characters and no failure of the persistence layer: add_task
\* succeeds and data.title is the trimmed title.
C8_ValidInputSucceeds ==
    ( /\ last.op = "add_task"
      /\ StrLen(last.title) <= MaxTitleLen
      /\ StrLen(Strip(last.title)) >= 1
      /\ (IsNone(last.description) \/ StrLen(Val(last.description)) <= MaxDescriptionLen)
      /\ StrLen(last.user_id) >= 1
      /\ StrLen(last.user_id) <= MaxUserIdLen
      /\ last.fault = "none" )
    => /\ last.result.status = "success"
       /\ last.result.data.title = Strip(last.title)

\* C8 witness: a padded title was accepted and came back trimmed.
C8_Witness ==
    /\ last.op = "add_task"
    /\ last.result.status = "success"
    /\ last.title # Strip(last.title)
    /\ last.result.data.title = Strip(last.title)
    /\ tasks[Len(tasks)].title = Strip(last.title)

\* C9: an add_task call whose title is empty or longer than 200 characters,
\* or whose description is longer than 1000 characters, returns an error
\* envelope and leaves the task store as it was.
C9_InvalidInputPersistsNothing ==
    [][ ( /\ last'.op = "add_task"
          /\ \/ StrLen(last'.title) = 0
             \/ StrLen(last'.title) > MaxTitleLen
             \/ ( ~IsNone(last'.description)
                  /\ StrLen(Val(last'.description)) > MaxDescriptionLen ) )
        => /\ last'.result.status = "error"
           /\ tasks' = tasks
      ]_vars

\* C9 witness: with a task already stored, a call with a title of more than
\* 200 characters was turned down and the store still holds just that task.
C9_Witness ==
    /\ last.op = "add_task"
    /\ StrLen(last.title) > MaxTitleLen
    /\ last.result.status = "error"
    /\ Len(tasks) = 1

\* C10: every add_task call returns one envelope: status success with a data
\* payload and no error field, or status error with an error message and no
\* data payload; invalid input and failures of the persistence layer both
\* give the error envelope, never an exception.
C10_AlwaysOneEnvelope ==
    last.op = "add_task" =>
        /\ \/ last.result.status = "success" /\ DOMAIN last.result = {"status", "data"}
           \/ last.result.status = "error" /\ DOMAIN last.result = {"status", "error"}
        /\ last.fault # "none" => last.result.status = "error"
        /\ ( \/ StrLen(Strip(last.title)) = 0
             \/ StrLen(last.title) > MaxTitleLen
             \/ StrLen(last.user_id) = 0
             \/ StrLen(last.user_id) > MaxUserIdLen ) => last.result.status = "error"

\* C10 witness: the persistence layer failed on valid input and the call
\* returned an error envelope.
C10_Witness ==
    /\ last.op = "add_task"
    /\ last.fault \in {"add", "commit", "refresh"}
    /\ StrLen(Strip(last.title)) >= 1
    /\ StrLen(last.title) <= MaxTitleLen
    /\ StrLen(last.user_id) >= 1
    /\ StrLen(last.user_id) <= MaxUserIdLen
    /\ IsNone(last.description)
    /\ last.result.status = "error"
    /\ DOMAIN last.result = {"status", "error"}

\* the log entries the calls of a run make, in the order of the requests
LogOf(calls) ==
    [i \in 1..Len(calls) |->
        [tool |-> calls[i].name, parameters |-> calls[i].arguments,
         result |-> Some(calls[i].result)]]

\* C11 (as claimed): the tool_calls log _run_agent returns lists the tool
\* calls of the run in the order they were requested, none dropped, merged,
\* reordered or duplicated, each entry with the call's name, arguments and
\* result.
C11_LogIsRequestedCalls ==
    last.op = "_run_agent" => last.result.tool_calls = LogOf(last.calls)

\* C12: for every history (absent or empty included) and message, the list
\* handed to the reasoning capability by process_message and by
\* process_message_streaming is the history in its order followed by exactly
\* one final entry {role: user, content: message}.
C12_MessagesAreHistoryThenMessage ==
    last.op \in {"_run_agent", "run_streamed"} =>
        LET h == IF IsNone(last.history) THEN <<>> ELSE Val(last.history)
        IN /\ Len(last.messages) = Len(h) + 1
           /\ SubSeq(last.messages, 1, Len(h)) = h
           /\ last.messages[Len(h) + 1] = [role |-> "user", content |-> last.message]

\* C12 witness: process_message assembled a list from a history of two turns
\* whose first is a user turn with the text of the new message.
C12_Witness ==
    /\ last.op = "_run_agent"
    /\ ~IsNone(last.history)
    /\ Len(Val(last.history)) = 2
    /\ Val(last.history)[1] = [role |-> "user", content |-> last.message]
    /\ Len(last.messages) = 3

\* C13: a call of process_message_streaming in separate mode that was
\* cancelled or closed by its consumer after it entered the scoped session
\* has left that session exactly once; no call leaves it more often than it
\* entered it.
C13_CancelledStreamClosedOnce ==
    \A r \in Reqs :
        /\ exits[r] <= enters[r]
        /\ enters[r] <= 1
        /\ kind[r] = "stream" /\ pc[r] = "cancelled" /\ enters[r] = 1 => exits[r] = 1

\* C13 witness: a stream was closed by its consumer while suspended at an
\* event inside the scoped session, and the session was left once.
C13_Witness ==
    \E r \in Reqs :
        /\ kind[r] = "stream"
        /\ pc[r] = "cancelled"
        /\ enters[r] = 1
        /\ exits[r] = 1
        /\ server[r] # NoServer

\* the positions inside the block guarded by _mcp_server_lock
InGuarded == {"gms_check", "gms_construct", "gms_return"}

\* C14 (as claimed): a call of get_mcp_server made when the singleton is
\* ready returns the handle without entering the guarded section and without
\* waiting for the lock.
C14_ReadyAcquisitionSkipsLock ==
    \A r \in Reqs :
        pc[r] \in InGuarded \cup {"gms_wait"} => calledUninit[r]

\* C15: the singleton is uninitialized or a constructed handle; the lock is
\* locked only while a live caller is inside the guarded block and queues
\* only callers that wait; a caller cancelled while waiting for the lock or
\* inside the block leaves the singleton as it was (uninitialized when it was
\* constructing), is off the queue and, if it held the lock, left it released.
C15_NoPartialConstruction ==
    /\ [] ( /\ mcp_server = NoServer \/ mcp_server \in 1..constructed
            /\ mcp_server_lock.locked => \E r \in Reqs : pc[r] \in InGuarded
            /\ \A i \in 1..Len(mcp_server_lock.waiters) :
                  pc[mcp_server_lock.waiters[i]] = "gms_wait" )
    /\ [][ \A r \in Reqs :
             pc[r] \in InGuarded \cup {"gms_wait"} /\ pc'[r] = "cancelled" =>
                /\ mcp_server' = mcp_server
                /\ pc[r] = "gms_construct" => mcp_server' = NoServer
                /\ pc[r] \in InGuarded => ~mcp_server_lock'.locked
                /\ \A i \in 1..Len(mcp_server_lock'.waiters) :
                      mcp_server_lock'.waiters[i] # r
         ]_vars

\* C15 witness: one caller was cancelled during construction and another
\* while it waited for the lock; the singleton is uninitialized and the lock
\* is free.
C15_Witness ==
    \E r1, r2 \in Reqs :
        /\ pc[r1] = "cancelled" /\ raisedAt[r1] = "construction"
        /\ pc[r2] = "cancelled" /\ raisedAt[r2] = "lock_wait"
        /\ mcp_server = NoServer
        /\ ~mcp_server_lock.locked

\* the owner of the stored task a returned view stands for
OwnersOf(view, store) ==
    { store[i].user_id : i \in { j \in 1..Len(store) : IdStr(store[j].id) = view.task_id } }

\* C16: whatever tasks of whatever users the store holds, a list call on the
\* binding built for user u succeeds with views of stored tasks that all
\* belong to u.
C16_ListReturnsOnlyOwnTasks ==
    ( last.via = "direct" /\ last.op = "list_tasks_tool" ) =>
        /\ last.result.status = "success"
        /\ \A i \in 1..Len(last.result.data.tasks) :
              OwnersOf(last.result.data.tasks[i], tasks) = {last.bound}

\* C16 witness: the store holds a task of each of two users and the list
\* call of one of them returned exactly one task.
C16_Witness ==
    /\ last.via = "direct" /\ last.op = "list_tasks_tool"
    /\ Len(tasks) = 2
    /\ tasks[1].user_id # tasks[2].user_id
    /\ Len(last.result.data.tasks) = 1

\* C17: the URL Settings.mcp_server_url gives is the MCP_SERVER_URL when
\* that is set and not empty, else http://localhost:<API_PORT>/mcp in mounted
\* and http://localhost:8001/mcp in separate mode; the singleton, once
\* constructed, was constructed with this URL.
C17_UrlFollowsConfiguration ==
    LET url == mcp_server_url(MCP_SERVER_URL, mount, API_PORT)
    IN /\ ~IsNone(MCP_SERVER_URL) /\ Val(MCP_SERVER_URL) # "" => url = Val(MCP_SERVER_URL)
       /\ IsNone(MCP_SERVER_URL) \/ MCP_SERVER_URL = Some("") =>
            /\ mount /\ API_PORT = 8000 => url = "http://localhost:8000/mcp"
            /\ mount /\ API_PORT = 8080 => url = "http://localhost:8080/mcp"
            /\ ~mount => url = "http://localhost:8001/mcp"
       /\ mcp_server # NoServer <=> ~IsNone(mcp_params)
       /\ ~IsNone(mcp_params) => Val(mcp_params).url = url

\* C17 witness: with an empty override and an API_PORT of 8080 the singleton
\* of separate mode was constructed for http://localhost:8001/mcp.
C17_Witness ==
    /\ MCP_SERVER_URL = Some("")
    /\ API_PORT = 8080
    /\ mcp_server # NoServer
    /\ mcp_params = Some([url |-> "http://localhost:8001/mcp", timeout |-> 30])

\* C18: in mounted mode, whatever calls of process_message and
\* process_message_streaming were made, the singleton is uninitialized,
\* get_mcp_server was never called (no lock and no object was created, no
\* call is inside it) and no call holds a server or has entered a scoped
\* session.
C18_DirectModeLeavesConnectionAlone ==
    mount =>
        /\ mcp_server = NoServer
        /\ mcp_server_lock = NoLock
        /\ constructed = 0
        /\ mcp_params = None
        /\ session = {}
        /\ \A r \in Reqs :
              /\ server[r] = NoServer
              /\ enters[r] = 0 /\ exits[r] = 0
              /\ pc[r] \in {"idle", "create_agent", "run", "yielded", "yield_error",
                            "done", "cancelled"}

\* C18 witness: in mounted mode a call of process_message has returned its
\* run's result while a stream is suspended at an event.
C18_Witness ==
    /\ mount
    /\ \E r1, r2 \in Reqs :
          /\ kind[r1] = "message" /\ pc[r1] = "done" /\ raisedAt[r1] = "nowhere"
          /\ ~IsNone(result[r1])
          /\ kind[r2] = "stream" /\ pc[r2] = "yielded"

\* C19: in separate mode a call of process_message runs the reasoning
\* capability only inside its scoped session (entered once, not yet left),
\* and a call that has returned, with the result of the run or with the
\* degraded result of a run that raised, has entered and left the session
\* exactly once; no call leaves the session more often than it entered it.
C19_RunInsideScopeExitedOnce ==
    \A r \in Reqs :
        kind[r] = "message" /\ ~mount =>
            /\ exits[r] <= enters[r] /\ enters[r] <= 1
            /\ pc[r] = "run" => enters[r] = 1 /\ exits[r] = 0
            /\ pc[r] = "exit" => enters[r] = 1 /\ exits[r] = 0
            /\ pc[r] = "done" /\ raisedAt[r] \in {"nowhere", "run"} =>
                  enters[r] = 1 /\ exits[r] = 1
            /\ pc[r] = "done" /\ enters[r] = 1 => exits[r] = 1

\* C19 witness: one call returned the result of its run and another the
\* degraded result of a run that raised; each entered and left the scoped
\* session once.
C19_Witness ==
    \E r1, r2 \in Reqs :
        /\ ~mount
        /\ kind[r1] = "message" /\ pc[r1] = "done" /\ raisedAt[r1] = "nowhere"
        /\ enters[r1] = 1 /\ exits[r1] = 1
        /\ kind[r2] = "message" /\ pc[r2] = "done" /\ raisedAt[r2] = "run"
        /\ enters[r2] = 1 /\ exits[r2] = 1

\* C20: after any sequence of add_task calls every stored task has one
\* owner, a user_id of 1 to 255 characters, a title that is trimmed, not
\* empty and at most 200 characters long, and a description that is absent
\* or at most 1000 characters long; no two stored tasks share an id.
C20_StoredTasksAreValid ==
    \A i \in 1..Len(tasks) :
        /\ StrLen(tasks[i].user_id) >= 1
        /\ StrLen(tasks[i].user_id) <= MaxUserIdLen
        /\ Strip(tasks[i].title) = tasks[i].title
        /\ StrLen(tasks[i].title) >= 1
        /\ StrLen(tasks[i].title) <= MaxTitleLen
        /\ \/ IsNone(tasks[i].description)
           \/ StrLen(Val(tasks[i].description)) <= MaxDescriptionLen
        /\ \A j \in 1..Len(tasks) : tasks[j].id = tasks[i].id => j = i

\* C20 witness: the store holds a task whose title arrived padded and whose
\* description has 1000 characters, and a call with an empty user_id was
\* turned down after it was stored.
C20_Witness ==
    /\ Len(tasks) = 1
    /\ tasks[1].title = Rep("a", 1)
    /\ tasks[1].description = Some(Rep("d", MaxDescriptionLen))
    /\ StrLen(tasks[1].user_id) = MaxUserIdLen
    /\ last.op = "add_task"
    /\ StrLen(last.user_id) = 0
    /\ last.result.status = "error"

\* C21: an add_task call that returns success has appended exactly one task
\* to the store: owned by the user_id of the call, not completed, with the
\* description of the call and an id no stored task had; the envelope carries
\* that task's view, and the tasks stored before are as they were.
C21_SuccessAddsExactlyOneTask ==
    [][ ( last'.op = "add_task" /\ last'.result.status = "success" ) =>
          LET new == tasks'[Len(tasks')]
          IN /\ Len(tasks') = Len(tasks) + 1
             /\ SubSeq(tasks', 1, Len(tasks)) = tasks
             /\ new.user_id = last'.user_id
             /\ new.completed = FALSE
             /\ new.description = last'.description
             /\ \A i \in 1..Len(tasks) : tasks[i].id # new.id
             /\ last'.result.data.task_id = IdStr(new.id)
             /\ last'.result.data.title = new.title
             /\ last'.result.data.description = last'.description
             /\ last'.result.data.completed = FALSE
             /\ "created_at" \in DOMAIN last'.result.data
      ]_vars

\* C21 witness: a second task with a description of 1000 characters was
\* added with success next to a stored task without description.
C21_Witness ==
    /\ last.op = "add_task"
    /\ last.result.status = "success"
    /\ Len(tasks) = 2
    /\ IsNone(tasks[1].description)
    /\ tasks[2].description = Some(Rep("d", MaxDescriptionLen))
    /\ last.result.data.task_id = IdStr(tasks[2].id)

\* C22: the dict process_message returns has the fields response, tool_calls
\* and model; it has the field error exactly when a fault was caught, and
\* then tool_calls is the empty list, whatever calls the run had applied
\* before the fault.
C22_ResultFieldsAndErrorIffFault ==
    last.op \in {"_run_agent", "process_message"} =>
        /\ {"response", "tool_calls", "model"} \subseteq DOMAIN last.result
        /\ "error" \in DOMAIN last.result <=> ~IsNone(last.fault)
        /\ ~IsNone(last.fault) => last.result.tool_calls = <<>>

\* C22 witness: a run raised after two tool calls had been applied, and the
\* dict returned has an error field and an empty tool_calls list.
C22_Witness ==
    /\ last.op = "process_message"
    /\ ~IsNone(last.fault)
    /\ Len(last.calls) = 2
    /\ "error" \in DOMAIN last.result
    /\ last.result.tool_calls = <<>>

\* C23: a fault before or during a stream never leaves
\* process_message_streaming as an exception: the call is then suspended at
\* one error event {type: error, error: message}, yielded after the scoped
\* session, if it was entered, has been left; nothing is yielded after the
\* error event, and ordinary events come only from the running stream.
C23_StreamFaultEndsWithOneErrorEvent ==
    /\ [] ( \A r \in Reqs :
              kind[r] = "stream" =>
                 /\ pc[r] = "yield_error" =>
                       /\ raisedAt[r] # "nowhere"
                       /\ \E m \in FaultMessages : result[r] = Some(ErrorEvent(m))
                       /\ exits[r] = enters[r]
                 /\ pc[r] = "done" =>
                       \/ raisedAt[r] = "nowhere" /\ IsNone(result[r])
                       \/ /\ raisedAt[r] # "nowhere"
                          /\ \E m \in FaultMessages : result[r] = Some(ErrorEvent(m))
                          /\ exits[r] = enters[r] )
    /\ [][ \A r \in Reqs :
             kind[r] = "stream" =>
                /\ pc[r] = "yield_error" /\ pc'[r] # "yield_error" =>
                      /\ pc'[r] \in {"done", "cancelled"}
                      /\ result'[r] = result[r]
                /\ pc'[r] = "yielded" /\ pc[r] # "yielded" => pc[r] = "run"
                /\ pc'[r] = "yield_error" /\ pc[r] # "yield_error" =>
                      pc[r] \in {"create_agent", "gms_construct", "enter", "run", "exit"}
         ]_vars

\* C23 witness: a stream that had entered the scoped session raised; it is
\* suspended at the error event and has left the session.
C23_Witness ==
    \E r \in Reqs :
        /\ kind[r] = "stream"
        /\ pc[r] = "yield_error"
        /\ raisedAt[r] = "run"
        /\ enters[r] = 1 /\ exits[r] = 1
        /\ result[r] = Some(ErrorEvent("transport failure"))

\* the positions of a call inside get_mcp_server
InGms == InGuarded \cup {"gms_acquire", "gms_wait"}

\* C24: under fair scheduling every caller inside get_mcp_server eventually
\* leaves it: with the handle, with the exception of the constructor, or
\* cancelled; no caller waits for the lock for ever.
C24_EveryAcquisitionEnds ==
    \A r \in Reqs : (pc[r] \in InGms) ~> (pc[r] \notin InGms)

\* C24 witness: a caller queued for the lock has been woken by the release
\* that followed the failure of another caller's construction.
C24_Witness ==
    \E r1, r2 \in Reqs :
        /\ pc[r1] = "gms_wait"
        /\ r1 \in mcp_server_lock.woken
        /\ ~mcp_server_lock.locked
        /\ pc[r2] = "done" /\ raisedAt[r2] = "get_mcp_server"

C26_PageReportsMore ==
    last.op = "load_thread_items" =>
        LET held == IF last.thread_id \in DOMAIN items
                    THEN items[last.thread_id] ELSE <<>>
            page == last.result
        IN /\ Len(page.data) = (IF last.limit < Len(held) THEN last.limit ELSE Len(held))
           /\ \A i \in 1..Len(page.data) : page.data[i] = held[i]
           /\ page.has_more = (Len(held) > Len(page.data))

\* C27: every thread id present in threads has an entry in items.
C27_ThreadsHaveItems ==
    DictKeys(threads) \subseteq DOMAIN items

\* C27 witness: after a thread was saved and an item was saved under an id
\* that is no thread, threads is a proper part of the ids of items.
C27_Witness ==
    /\ last.op \in {"save_item", "add_thread_item"}
    /\ "t1" \in DictKeys(threads)
    /\ "t2" \notin DictKeys(threads)
    /\ DOMAIN items = {"t1", "t2"}
    /\ Len(items["t1"]) = 0

\* the store holds nothing under the id t
UnknownThread(self, t) == t \notin DictKeys(self.threads) /\ t \notin DOMAIN self.items

\* C28: delete_thread(t) leaves the store without thread t and without its
\* items: load_thread(t) then raises and load_thread_items(t) returns the
\* empty page; every other thread and its items are as before, and nothing
\* changes when the store held nothing under t.
C28_DeleteThreadFrame ==
    [][ last'.op = "delete_thread" =>
          LET t == last'.thread_id
              before == Self
              after == [threads |-> threads', items |-> items']
          IN /\ load_thread(after, t).raised
             /\ \A limit \in Limits, b \in Befores :
                   load_thread_items(after, t, limit, b) = Page(<<>>, FALSE)
             /\ after.threads = SelectSeq(before.threads, LAMBDA th : th.id # t)
             /\ DOMAIN after.items = DOMAIN before.items \ {t}
             /\ \A u \in DOMAIN after.items : after.items[u] = before.items[u]
             /\ UnknownThread(before, t) => after = before
      ]_vars

\* C28 witness: delete_thread has removed a thread since the last call; the
\* other thread is present and holds two items.
C28_Witness ==
    /\ last.op = "delete_thread"
    /\ last.thread_id = "t1"
    /\ DictKeys(threads) = {"t2"}
    /\ DOMAIN items = {"t2"}
    /\ Len(items["t2"]) = 2

\* C29: in every call of respond for a user message the user turn is
\* committed before the assistant turn, both under the id of the thread the
\* call was given; the one assistant item is yielded after its turn was
\* committed, and a call that ran to its end has yielded exactly one. A call
\* for a client tool call commits nothing and yields nothing.
C29_RespondPersistsThenYields ==
    /\ [](respond.pc # "idle" =>
            /\ respond.input.type # "user_message" =>
                  /\ respond.yielded = <<>>
                  /\ IsNone(respond.msg) /\ IsNone(respond.assistant_msg)
                  /\ respond.pc = "done"
            /\ ~IsNone(respond.assistant_msg) =>
                  /\ ~IsNone(respond.msg)
                  /\ Val(respond.msg) < Val(respond.assistant_msg)
                  /\ Val(respond.assistant_msg) <= Len(message_table)
                  /\ message_table[Val(respond.msg)].role = "user"
                  /\ message_table[Val(respond.msg)].conversation_id = respond.thread.id
                  /\ message_table[Val(respond.assistant_msg)].role = "assistant"
                  /\ message_table[Val(respond.assistant_msg)].conversation_id
                        = respond.thread.id
            /\ respond.yielded # <<>> =>
                  /\ Len(respond.yielded) = 1
                  /\ ~IsNone(respond.assistant_msg)
                  /\ respond.yielded[1].id
                        = IdStr(message_table[Val(respond.assistant_msg)].id)
            /\ (respond.pc = "done" /\ respond.input.type = "user_message") =>
                  Len(respond.yielded) = 1)
    /\ [][ message_table' # message_table =>
             /\ respond.input.type = "user_message"
             /\ Len(message_table') = Len(message_table) + 1
             /\ SubSeq(message_table', 1, Len(message_table)) = message_table
             /\ message_table'[Len(message_table')].conversation_id = respond.thread.id
         ]_vars

\* C29 witness: a call for a user message of two parts ran to its end; its
\* two turns are the third and fourth row of the table, under its thread,
\* and it has yielded its one item.
C29_Witness ==
    /\ respond.pc = "done"
    /\ respond.input.type = "user_message"
    /\ Len(respond.input.content) = 2
    /\ respond.msg = Some(3)
    /\ respond.assistant_msg = Some(4)
    /\ message_table[3].content = "add milk"
    /\ message_table[4].conversation_id = respond.thread.id
    /\ Len(respond.yielded) = 1

====
